---- MODULE Spec2Model ----
(***************************************************************************)
(* Binary acquisition of the C# extension: the netcoredbg debug adapter    *)
(* (BinaryManager, src/src/binary_manager.rs), the Roslyn language server  *)
(* (Roslyn, src/src/language_servers/roslyn.rs) and the NuGet version      *)
(* order (NuGetVersion, src/src/language_servers/nuget.rs).                *)
(*                                                                         *)
(* The working directory holds netcoredbg_v<tag> directories, staging      *)
(* directories netcoredbg_v<tag>_<timestamp> and roslyn-<version>          *)
(* directories.  BinaryManager::get_binary_path takes &self and its cache  *)
(* is a OnceLock, so two callers may run it at once: it is modelled one    *)
(* blocking primitive per step.  Roslyn::language_server_cmd takes         *)
(* &mut self and is one step.                                              *)
(***************************************************************************)
EXTENDS Integers, Sequences, FiniteSets, TLC

(***************************************************************************)
(* Bounds                                                                  *)
(***************************************************************************)
\* release tags / package versions are 1..MaxVersion
MaxVersion == 2
\* timestamps SimpleTempDir::new may read are 1..MaxStamp
MaxStamp == 2
MaxTokens == 2
MaxList == 3
MaxAssets == 3
MaxEntries == 2

Versions == 1..MaxVersion
Stamps == 1..MaxStamp

(***************************************************************************)
(* Platform                                                                *)
(***************************************************************************)
Oses == {"Linux", "Mac", "Windows"}
Archs == {"X8664", "Aarch64", "X86"}
Platforms == [os : Oses, arch : Archs]

GetExecutableName(plat) ==
    IF plat.os = "Windows" THEN "netcoredbg.exe" ELSE "netcoredbg"

\* a faulty mapping: no fallback for Windows on ARM64
GetPlatformAssetNameNoFallback(plat) ==
    CASE plat.arch = "X86" \/ (plat.os = "Windows" /\ plat.arch = "Aarch64") ->
           [ok |-> FALSE, name |-> <<>>]
      [] plat.os = "Linux" /\ plat.arch = "X8664" ->
           [ok |-> TRUE, name |-> <<"netcoredbg-", "linux-amd64", ".tar.gz">>]
      [] plat.os = "Linux" /\ plat.arch = "Aarch64" ->
           [ok |-> TRUE, name |-> <<"netcoredbg-", "linux-arm64", ".tar.gz">>]
      [] plat.os = "Mac" /\ plat.arch = "X8664" ->
           [ok |-> TRUE, name |-> <<"netcoredbg-", "osx-amd64", ".tar.gz">>]
      [] plat.os = "Mac" /\ plat.arch = "Aarch64" ->
           [ok |-> TRUE, name |-> <<"netcoredbg-", "osx-arm64", ".tar.gz">>]
      [] plat.os = "Windows" /\ plat.arch = "X8664" ->
           [ok |-> TRUE, name |-> <<"netcoredbg-", "win64", ".zip">>]

\* a name is the tuple of the pieces format! joins, the extension last
GetPlatformAssetName(plat) ==
    CASE plat.arch = "X86" ->
           [ok |-> FALSE, name |-> <<>>]
      [] plat.os = "Linux" /\ plat.arch = "X8664" ->
           [ok |-> TRUE, name |-> <<"netcoredbg-", "linux-amd64", ".tar.gz">>]
      [] plat.os = "Linux" /\ plat.arch = "Aarch64" ->
           [ok |-> TRUE, name |-> <<"netcoredbg-", "linux-arm64", ".tar.gz">>]
      [] plat.os = "Mac" /\ plat.arch = "X8664" ->
           [ok |-> TRUE, name |-> <<"netcoredbg-", "osx-amd64", ".tar.gz">>]
      [] plat.os = "Mac" /\ plat.arch = "Aarch64" ->
           [ok |-> TRUE, name |-> <<"netcoredbg-", "osx-arm64", ".tar.gz">>]
      [] plat.os = "Windows" /\ plat.arch = "X8664" ->
           [ok |-> TRUE, name |-> <<"netcoredbg-", "win64", ".zip">>]
      [] plat.os = "Windows" /\ plat.arch = "Aarch64" ->
           [ok |-> TRUE, name |-> <<"netcoredbg-", "win64", ".zip">>]

\* download_and_extract_binary: the archive kind, from the end of the name
FileType(name) ==
    IF name[Len(name)] = ".zip" THEN "Zip"
    ELSE IF name[Len(name)] = ".tar.gz" THEN "GzipTar"
    ELSE "Unsupported"

\* release.assets: the assets in the order of the release, each with its
\* name and its own download_url
Release(names) ==
    [i \in 1..Len(names) |-> [name |-> names[i], download_url |-> <<"url", i>>]]

\* the five assets a netcoredbg release carries
ReleaseAssets ==
    Release(<< <<"netcoredbg-", "linux-amd64", ".tar.gz">>,
               <<"netcoredbg-", "linux-arm64", ".tar.gz">>,
               <<"netcoredbg-", "osx-amd64", ".tar.gz">>,
               <<"netcoredbg-", "osx-arm64", ".tar.gz">>,
               <<"netcoredbg-", "win64", ".zip">> >>)

\* the asset lists a release is published with
AssetLists == { ReleaseAssets, Release(<< <<"netcoredbg-", "src", ".zip">> >>) }

(***************************************************************************)
(* Paths and files                                                         *)
(***************************************************************************)
\* a file beside the executable in the archive
SupportFile == "libdbgshim"

Files(plat) == {GetExecutableName(plat), SupportFile}

\* the mark of an existing directory in a directory's entry set
DirMark == "."

\* the mark, in a version directory's entry set, of a binary to which
\* zed::make_file_executable was applied
ExecMark == "+x"

NoPath == [abs |-> FALSE, dir |-> "", ver |-> 0, file |-> ""]

\* version_dir.join(exe_name): relative to the working directory
BinaryPath(tag, plat) ==
    [abs |-> FALSE, dir |-> "netcoredbg_v", ver |-> tag,
     file |-> GetExecutableName(plat)]

\* current_dir.join(path)
AbsolutePath(path) == [path EXCEPT !.abs = TRUE]

\* paths a user configures: they are returned as given
UserPaths ==
    { [abs |-> TRUE, dir |-> "/opt/tools", ver |-> 0, file |-> "netcoredbg"],
      [abs |-> FALSE, dir |-> "tools", ver |-> 0, file |-> "netcoredbg"] }

VARIABLES
    platform,   \* zed::current_platform()
    component,  \* the component the run acquires: "netcoredbg" or "roslyn"
    shared,     \* whether the two callers use one BinaryManager
    latest,     \* tag of the latest GitHub release
    vdir,       \* vdir[v]: the files in netcoredbg_v<v> ({} when it is absent)
    staging,    \* staging[<<v, t>>]: entries of netcoredbg_v<v>_<t> ({} absent)
    cached,     \* cached[m]: BinaryManager m's cached_binary_path
    call,       \* call[c]: caller c's position in get_binary_path and its result
    feed,       \* the latest version the NuGet feed lists for the package
    baseAddr,   \* NuGetClient.package_base_address: NoBase (None) or the URL
    rdir,       \* rdir[v]: what roslyn-<v>/tools holds
    rcached,    \* Roslyn.cached_server_path
    rcall,      \* the last language_server_cmd call and its result
    nv          \* two version strings under NuGetVersion::parse and cmp

dbgVars == <<latest, vdir, staging, cached, call>>
roslynVars == <<feed, baseAddr, rdir, rcached, rcall>>
vars == <<platform, component, shared, dbgVars, roslynVars, nv>>

Callers == {"c1", "c2"}
Managers == {"m1", "m2"}

Manager(c) == IF shared \/ c = "c1" THEN "m1" ELSE "m2"

TempNames == Versions \X Stamps

\* A call of get_binary_path: where it stands (pc), its argument (arg), its
\* locals (ver, dver, temp, todo, bpath) and, once it returned, its result
\* (status, path, err), the branch that produced it, the registry lookups
\* (nfetch) and downloads (ndl) it made, whether it wrote the cache and the
\* archive kind it chose (ftype).
\* prev is the path the previous call returned, kept while nothing changed
\* on disk or in the registry since.
IdleCall ==
    [pc |-> "idle", arg |-> NoPath, prev |-> NoPath, ver |-> 0, dver |-> 0,
     temp |-> 0, todo |-> {}, bpath |-> NoPath, status |-> "none",
     path |-> NoPath, branch |-> "none", err |-> "none", nfetch |-> 0,
     ndl |-> 0, wrote |-> FALSE, ftype |-> "none"]

\* a new call, made with the result old of the previous one at hand
NewCall(old, user) ==
    [IdleCall EXCEPT !.arg = user,
                     !.prev = IF old.status = "ok" /\ old.branch # "user"
                              THEN old.path ELSE NoPath]

\* The result of a call is observed in the state the call returned in: a
\* change of the environment ends the observation.
Settle(rec) == IF rec.pc = "idle" THEN IdleCall ELSE [rec EXCEPT !.prev = NoPath]

(***************************************************************************)
(* Filesystem primitives                                                   *)
(***************************************************************************)
\* Path::exists
Exists(path) ==
    /\ path.dir = "netcoredbg_v"
    /\ path.ver \in Versions
    /\ path.file \in vdir[path.ver]

\* Path::is_file: the entries of a version directory are regular files
IsFile(path) == Exists(path)

\* a faulty cell: set replaces the value it holds
OnceLockOverwrite(cell, value) == value

\* OnceLock::set: writes only an empty cell
OnceLockSet(cell, value) == IF cell = NoPath THEN value ELSE cell

\* a faulty SimpleTempDir: nothing is removed when it goes out of scope
DropTempDirKept(stg, v, t) == stg

\* Drop for SimpleTempDir: remove_dir_all of the staging directory
DropTempDir(stg, v, t) == [stg EXCEPT ![<<v, t>>] = {}]

(***************************************************************************)
(* BinaryManager                                                           *)
(***************************************************************************)
NoRelease ==
    [ok |-> FALSE, tag |-> 0, download_url |-> <<>>, err |-> "none",
     looking |-> <<>>, available |-> <<>>]

\* Iterator::find: the first of the positions that meet the test, 0 if none
Find(hits) ==
    IF hits = {} THEN 0 ELSE CHOOSE i \in hits : \A j \in hits : i <= j

\* str::starts_with on names
StartsWith(name, prefix) ==
    Len(name) >= Len(prefix) /\ SubSeq(name, 1, Len(prefix)) = prefix

\* a faulty lookup: the first asset whose name starts with the expected name
FetchLatestReleasePrefixMatch(netOk, tag, assets, plat) ==
    LET asset == GetPlatformAssetName(plat)
        at == Find({i \in 1..Len(assets) : StartsWith(assets[i].name, asset.name)})
    IN IF ~netOk THEN [NoRelease EXCEPT !.err = "fetch"]
       ELSE IF ~asset.ok THEN [NoRelease EXCEPT !.err = "platform"]
       ELSE IF at = 0
       THEN [NoRelease EXCEPT !.err = "asset", !.looking = asset.name,
                              !.available = [i \in 1..Len(assets) |-> assets[i].name]]
       ELSE [NoRelease EXCEPT !.ok = TRUE, !.tag = tag,
                              !.download_url = assets[at].download_url]

\* fetch_latest_release: the registry answers (or not) with the latest
\* release; the asset is the first whose name equals the platform's asset
\* name, and the error for none names the expected asset (looking) and the
\* assets of the release (available)
FetchLatestRelease(netOk, tag, assets, plat) ==
    LET asset == GetPlatformAssetName(plat)
        at == Find({i \in 1..Len(assets) : assets[i].name = asset.name})
    IN IF ~netOk THEN [NoRelease EXCEPT !.err = "fetch"]
       ELSE IF ~asset.ok THEN [NoRelease EXCEPT !.err = "platform"]
       ELSE IF at = 0
       THEN [NoRelease EXCEPT !.err = "asset", !.looking = asset.name,
                              !.available = [i \in 1..Len(assets) |-> assets[i].name]]
       ELSE [NoRelease EXCEPT !.ok = TRUE, !.tag = tag,
                              !.download_url = assets[at].download_url]

Fail(rec, kind) ==
    [rec EXCEPT !.pc = "idle", !.status = "err", !.err = kind,
                !.ver = 0, !.dver = 0, !.temp = 0, !.todo = {},
                !.bpath = NoPath]

Succeed(rec, path, branch) ==
    [rec EXCEPT !.pc = "idle", !.status = "ok", !.path = path,
                !.branch = branch, !.ver = 0, !.dver = 0, !.temp = 0,
                !.todo = {}, !.bpath = NoPath]

\* a faulty memory check: the cached path is trusted without Path::exists
CacheHitUnchecked(m) == cached[m] # NoPath

\* get_binary_path, priority 2: a cached path is trusted while it exists
CacheHit(m) == cached[m] # NoPath /\ Exists(cached[m])

\* a faulty order of the priorities: the memory cache before the user's path
PriorityCacheFirst(user, hit) ==
    IF hit THEN "memory" ELSE IF user # NoPath THEN "user" ELSE "resolve"

\* get_binary_path: the user's path comes first, then the memory cache
Priority(user, hit) ==
    IF user # NoPath THEN "user" ELSE IF hit THEN "memory" ELSE "resolve"

\* get_binary_path, priorities 1 and 2, entered by caller c whose previous
\* call left the record old
EnterGetBinaryPath(old, c, user) ==
    LET branch == Priority(user, CacheHit(Manager(c))) IN
    CASE branch = "user" -> Succeed(NewCall(old, user), user, "user")
      [] branch = "memory" ->
           Succeed(NewCall(old, user), cached[Manager(c)], "memory")
      [] OTHER -> [NewCall(old, user) EXCEPT !.pc = "resolve"]

GetBinaryPath(c, user) ==
    /\ component = "netcoredbg"
    /\ call[c].pc = "idle"
    /\ call' = [call EXCEPT ![c] = EnterGetBinaryPath(@, c, user)]
    /\ UNCHANGED <<nv, platform, component, shared, roslynVars, latest, vdir, staging, cached>>

\* a faulty disk check: the executable is looked up without its extension
ExistingBinaryNoExtension(tag) ==
    Exists([BinaryPath(tag, platform) EXCEPT !.file = "netcoredbg"])

\* get_binary_path: the binary of release tag is in its version directory
ExistingBinary(tag) == Exists(BinaryPath(tag, platform))

\* get_binary_path, priority 3: resolve the latest release, look on disk
CheckDisk(c, netOk, assets, cwdOk) ==
    /\ call[c].pc = "resolve"
    /\ LET m == Manager(c)
           rel == FetchLatestRelease(netOk, latest, assets, platform)
           rec == [call[c] EXCEPT !.nfetch = @ + 1]
           existing == BinaryPath(rel.tag, platform)
       IN IF ~rel.ok
          THEN /\ call' = [call EXCEPT ![c] = Fail(rec, rel.err)]
               /\ UNCHANGED cached
          ELSE IF ExistingBinary(rel.tag)
          THEN IF ~cwdOk
               THEN /\ call' = [call EXCEPT ![c] = Fail(rec, "cwd")]
                    /\ UNCHANGED cached
               ELSE /\ cached' = [cached EXCEPT ![m] = OnceLockSet(@, AbsolutePath(existing))]
                    /\ call' = [call EXCEPT ![c] =
                          Succeed([rec EXCEPT !.wrote = (cached[m] = NoPath)],
                                  AbsolutePath(existing), "disk")]
          ELSE /\ call' = [call EXCEPT ![c] = [rec EXCEPT !.pc = "install", !.ver = rel.tag]]
               /\ UNCHANGED cached
    /\ UNCHANGED <<nv, platform, component, shared, roslynVars, latest, vdir, staging>>

\* download_and_extract_binary, to the creation of the staging directory:
\* the release is fetched again, SimpleTempDir::new reads the clock (stamp)
BeginInstall(c, netOk, assets, stamp, mkdirOk) ==
    /\ call[c].pc = "install"
    /\ LET rel == FetchLatestRelease(netOk, latest, assets, platform)
           asset == GetPlatformAssetName(platform)
           rec == [call[c] EXCEPT !.nfetch = @ + 1]
       IN IF ~rel.ok
          THEN /\ call' = [call EXCEPT ![c] = Fail(rec, rel.err)]
               /\ UNCHANGED staging
          ELSE IF FileType(asset.name) = "Unsupported"
          THEN /\ call' = [call EXCEPT ![c] = Fail(rec, "filetype")]
               /\ UNCHANGED staging
          ELSE IF ~mkdirOk
          THEN /\ call' = [call EXCEPT ![c] =
                     Fail([rec EXCEPT !.ftype = FileType(asset.name)], "tempdir")]
               /\ UNCHANGED staging
          ELSE /\ staging' = [staging EXCEPT ![<<rel.tag, stamp>>] = @ \cup {DirMark}]
               /\ call' = [call EXCEPT ![c] =
                     [rec EXCEPT !.pc = "download", !.dver = rel.tag,
                                 !.temp = stamp, !.ftype = FileType(asset.name)]]
    /\ UNCHANGED <<nv, platform, component, shared, roslynVars, latest, vdir, cached>>

\* what the archive of a release asset may hold beside or instead of the binary
Archives(plat) == SUBSET Files(plat)

\* zed::download_file into the staging directory
Download(c, dlOk, archive) ==
    /\ call[c].pc = "download"
    /\ LET rec == [call[c] EXCEPT !.ndl = @ + 1]
           v == call[c].dver
           t == call[c].temp
       IN IF ~dlOk
          THEN /\ call' = [call EXCEPT ![c] = Fail(rec, "download")]
               /\ staging' = DropTempDir(staging, v, t)
          ELSE /\ staging' = [staging EXCEPT ![<<v, t>>] = @ \cup {DirMark} \cup archive]
               /\ call' = [call EXCEPT ![c] = [rec EXCEPT !.pc = "locate"]]
    /\ UNCHANGED <<nv, platform, component, shared, roslynVars, latest, vdir, cached>>

\* A directory is the sequence of its entries in the order read_dir lists
\* them; an entry is a regular file or a directory with its own entries.
File(n) == [name |-> n, kind |-> "file", entries |-> <<>>]
Dir(n, l) == [name |-> n, kind |-> "dir", entries |-> l]

NotFound == [ok |-> FALSE, path |-> <<>>]

\* a faulty search: the first subdirectory decides, found or not
RECURSIVE FindBinaryFirstSubdirectory(_, _, _)
FindBinaryFirstSubdirectory(dir, entries, exeName) ==
    IF entries = <<>> THEN NotFound
    ELSE LET entry == Head(entries)
             path == Append(dir, entry.name)
         IN IF entry.kind = "file" /\ entry.name = exeName
            THEN [ok |-> TRUE, path |-> path]
            ELSE IF entry.kind = "dir"
            THEN FindBinaryFirstSubdirectory(path, entry.entries, exeName)
            ELSE FindBinaryFirstSubdirectory(dir, Tail(entries), exeName)

\* find_binary_recursive: the entries of dir in order; a file of the expected
\* name is returned, a directory is searched before the entries after it
RECURSIVE FindBinaryRecursive(_, _, _)
FindBinaryRecursive(dir, entries, exeName) ==
    IF entries = <<>> THEN NotFound
    ELSE LET entry == Head(entries)
             path == Append(dir, entry.name)
         IN IF entry.kind = "file" /\ entry.name = exeName
            THEN [ok |-> TRUE, path |-> path]
            ELSE IF entry.kind = "dir"
            THEN LET found == FindBinaryRecursive(path, entry.entries, exeName)
                 IN IF found.ok THEN found
                    ELSE FindBinaryRecursive(dir, Tail(entries), exeName)
            ELSE FindBinaryRecursive(dir, Tail(entries), exeName)

\* find_binary_in_extracted_content on the entries of search_dir: the path
\* found, relative to search_dir, or the not-found error
FindBinaryInTree(entries, exeName) ==
    LET found == FindBinaryRecursive(<<>>, entries, exeName)
    IN IF found.ok THEN [ok |-> TRUE, path |-> found.path, err |-> "none"]
       ELSE [ok |-> FALSE, path |-> <<>>, err |-> "notfound"]

\* the files of a flat directory as read_dir lists them
RECURSIVE Listing(_)
Listing(files) ==
    IF files = {} THEN <<>>
    ELSE LET f == CHOOSE x \in files : TRUE
         IN <<File(f)>> \o Listing(files \ {f})

\* find_binary_in_extracted_content: the directory that holds the binary
FindBinaryInExtractedContent(entries, exeName) ==
    IF DirMark \in entries
          /\ FindBinaryInTree(Listing(entries \ {DirMark}), exeName).ok
    THEN [ok |-> TRUE, content |-> entries \ {DirMark}]
    ELSE [ok |-> FALSE, content |-> {}]

\* create_dir_all(version_dir), then copy_extracted_content up to the listing
\* of the directory to copy
Locate(c, mkdirOk) ==
    /\ call[c].pc = "locate"
    /\ LET v == call[c].dver
           t == call[c].temp
           found == FindBinaryInExtractedContent(staging[<<v, t>>],
                                                 GetExecutableName(platform))
       IN IF ~mkdirOk
          THEN /\ call' = [call EXCEPT ![c] = Fail(call[c], "versiondir")]
               /\ staging' = DropTempDir(staging, v, t)
          ELSE IF ~found.ok
          THEN /\ call' = [call EXCEPT ![c] = Fail(call[c], "locate")]
               /\ staging' = DropTempDir(staging, v, t)
          ELSE /\ call' = [call EXCEPT ![c] = [@ EXCEPT !.pc = "copy", !.todo = found.content]]
               /\ UNCHANGED staging
    /\ UNCHANGED <<nv, platform, component, shared, roslynVars, latest, vdir, cached>>

\* fs_extra::dir::copy with content_only, overwrite and skip_exist unset:
\* one file per step in the order of the listing; a target that exists
\* already is the error "exists", any other failure the error "copy"
CopyFile(c, f, ioOk) ==
    /\ call[c].pc = "copy"
    /\ f \in call[c].todo
    /\ LET v == call[c].dver
           t == call[c].temp
       IN IF f \notin staging[<<v, t>>] \/ f \in vdir[v] \/ ~ioOk
          THEN /\ call' = [call EXCEPT ![c] =
                     Fail(call[c], IF f \in staging[<<v, t>>] /\ f \in vdir[v]
                                   THEN "exists" ELSE "copy")]
               /\ staging' = DropTempDir(staging, v, t)
               /\ UNCHANGED vdir
          ELSE /\ vdir' = [vdir EXCEPT ![v] = @ \cup {f}]
               /\ call' = [call EXCEPT ![c].todo = @ \ {f}]
               /\ UNCHANGED staging
    /\ UNCHANGED <<nv, platform, component, shared, roslynVars, latest, cached>>

\* zed::make_file_executable on the binary of a version directory
MakeExecutable(entries, chmodOk) ==
    IF chmodOk THEN entries \cup {ExecMark} ELSE entries

\* download_and_extract_binary after the copy: the binary is looked up in the
\* version directory and made executable; the staging directory is dropped
\* as the function returns
FinishInstall(c, chmodOk, cwdOk) ==
    /\ call[c].pc = "copy"
    /\ call[c].todo = {}
    /\ LET v == call[c].dver
           t == call[c].temp
           binary == BinaryPath(v, platform)
       IN /\ staging' = DropTempDir(staging, v, t)
          /\ vdir' = IF Exists(binary)
                     THEN [vdir EXCEPT ![v] = MakeExecutable(@, chmodOk)]
                     ELSE vdir
          /\ call' = [call EXCEPT ![c] =
                IF ~Exists(binary) THEN Fail(@, "missing")
                ELSE IF ~chmodOk THEN Fail(@, "chmod")
                ELSE IF ~cwdOk THEN Fail(@, "cwd")
                ELSE [@ EXCEPT !.pc = "cache", !.bpath = AbsolutePath(binary),
                               !.temp = 0, !.todo = {}]]
    /\ UNCHANGED <<nv, platform, component, shared, roslynVars, latest, cached>>

\* validate_binary
ValidateBinary(path) == Exists(path) /\ IsFile(path)

\* get_binary_path, priority 4 after download_and_extract_binary returned:
\* the path is cached, then validated
CacheAndValidate(c) ==
    /\ call[c].pc = "cache"
    /\ LET m == Manager(c)
           path == call[c].bpath
           rec == [call[c] EXCEPT !.wrote = (cached[m] = NoPath)]
       IN /\ cached' = [cached EXCEPT ![m] = OnceLockSet(@, path)]
          /\ call' = [call EXCEPT ![c] =
                IF ValidateBinary(path) THEN Succeed(rec, path, "fresh")
                ELSE Fail(rec, "validate")]
    /\ UNCHANGED <<nv, platform, component, shared, roslynVars, latest, vdir, staging>>

(***************************************************************************)
(* Environment                                                             *)
(***************************************************************************)
\* a new release is published
PublishRelease ==
    /\ component = "netcoredbg"
    /\ latest < MaxVersion
    /\ latest' = latest + 1
    /\ call' = [c \in Callers |-> Settle(call[c])]
    /\ UNCHANGED <<nv, platform, component, shared, roslynVars, vdir, staging, cached>>

\* the user (or a cleaner) removes an installed version directory
RemoveVersionDir(v) ==
    /\ component = "netcoredbg"
    /\ vdir[v] # {}
    /\ vdir' = [vdir EXCEPT ![v] = {}]
    /\ call' = [c \in Callers |-> Settle(call[c])]
    /\ UNCHANGED <<nv, platform, component, shared, roslynVars, latest, staging, cached>>

(***************************************************************************)
(* Roslyn and the NuGet client                                             *)
(***************************************************************************)
\* language_server_cmd's runtime identifier
Rid(plat) ==
    CASE plat.os = "Windows" /\ plat.arch = "X8664" -> "win-x64"
      [] plat.os = "Windows" /\ plat.arch = "Aarch64" -> "win-arm64"
      [] plat.os = "Linux" /\ plat.arch = "X8664" -> "linux-x64"
      [] plat.os = "Linux" /\ plat.arch = "Aarch64" -> "linux-arm64"
      [] plat.os = "Mac" /\ plat.arch = "X8664" -> "osx-x64"
      [] plat.os = "Mac" /\ plat.arch = "Aarch64" -> "osx-arm64"
      [] OTHER -> "any"

NoRPath == [abs |-> FALSE, dir |-> "", ver |-> 0, tfm |-> "", rid |-> "", file |-> ""]
NoServer == [kind |-> "None", path |-> NoRPath]

\* server_path_for_rid: the file under {version_dir}/tools/{tfm}/{rid}
ServerPathForRid(rid, v, tfm) ==
    LET at(file) == [abs |-> FALSE, dir |-> "roslyn-", ver |-> v, tfm |-> tfm,
                     rid |-> rid, file |-> file]
    IN IF rid = "any"
       THEN [kind |-> "Dll", path |-> at("Microsoft.CodeAnalysis.LanguageServer.dll")]
       ELSE IF rid \in {"win-x64", "win-arm64"}
       THEN [kind |-> "Exe", path |-> at("Microsoft.CodeAnalysis.LanguageServer.exe")]
       ELSE [kind |-> "Exe", path |-> at("Microsoft.CodeAnalysis.LanguageServer")]

\* the shapes of roslyn-<v>/tools: its subdirectories in the order read_dir
\* lists them, those that hold the server binary of this platform, and
\* whether the package was extracted to its end (whole)
NoTools == [order |-> <<>>, bins |-> {}, whole |-> FALSE]
PartialTools == [order |-> <<"net9.0">>, bins |-> {}, whole |-> FALSE]
PartialWithServer == [order |-> <<"net9.0">>, bins |-> {"net9.0"}, whole |-> FALSE]
Packages ==
    { [order |-> <<"net9.0">>, bins |-> {"net9.0"}, whole |-> TRUE],
      [order |-> <<"net9.0">>, bins |-> {}, whole |-> TRUE],
      [order |-> <<"net9.0", "net10.0">>, bins |-> {"net10.0"}, whole |-> TRUE],
      [order |-> <<"net10.0", "net9.0">>, bins |-> {"net10.0"}, whole |-> TRUE] }

\* fs::metadata(path).is_ok_and(|stat| stat.is_file()) in directories dirs
RIsFile(dirs, path) ==
    /\ path.dir = "roslyn-"
    /\ path.ver \in Versions
    /\ path.tfm \in dirs[path.ver].bins
    /\ path.file = ServerPathForRid(path.rid, path.ver, path.tfm).path.file

\* find_server_path: the first subdirectory of tools
FindServerPath(dirs, rid, v) ==
    IF dirs[v].order = <<>>
    THEN [ok |-> FALSE, server |-> NoServer]
    ELSE [ok |-> TRUE, server |-> ServerPathForRid(rid, v, Head(dirs[v].order))]

Dotnet == [abs |-> FALSE, dir |-> "PATH", ver |-> 0, tfm |-> "", rid |-> "", file |-> "dotnet"]

\* build_command
BuildCommand(server, userArgs) ==
    LET extra == <<"--stdio", "--autoLoadProjects">> \o userArgs
    IN IF server.kind = "Dll"
       THEN [command |-> Dotnet, path |-> server.path, args |-> <<"exec">> \o extra]
       ELSE [command |-> server.path, path |-> server.path, args |-> extra]

NoCommand == [command |-> NoRPath, path |-> NoRPath, args |-> <<>>]

\* A call of language_server_cmd: the binary path of the settings (arg), its
\* result (status, command, err), the branch that produced it, the requests
\* for the service index (nindex) and the version list (nlist), the
\* downloads (ndl), whether it pruned and whether it made the server
\* executable (chmod).  prev is the server path of the
\* previous call's command, kept while nothing changed on disk or in the feed.
IdleRCall ==
    [arg |-> NoRPath, prev |-> NoRPath, status |-> "none", command |-> NoCommand,
     branch |-> "none", err |-> "none", nindex |-> 0, nlist |-> 0, ndl |-> 0,
     pruned |-> FALSE, chmod |-> FALSE]

NewRCall(old, userPath) ==
    [IdleRCall EXCEPT !.arg = userPath,
                      !.prev = IF old.status = "ok" /\ old.branch # "user"
                               THEN old.command.path ELSE NoRPath]

\* A call names the primitive that fails in it, if any (fault): "index",
\* "versions", "download" (nothing extracted), "partial" (a part extracted,
\* the server binary not among it), "cut" (a part extracted, the server
\* binary among it), "prune", "chmod" or "none".  A call ends at its first
\* error.

\* a JSON value where a string is expected: a string or another value
Str(text) == [isStr |-> TRUE, text |-> text]
NotStr == [isStr |-> FALSE, text |-> <<>>]

\* package_base_address = None
NoBase == <<>>

\* The answer to the request for the service index: kind is "error" (the
\* fetch failed), "malformed" (the body is no JSON), "noarray" (no
\* "resources" array) or "json", with the "@type" and "@id" of each resource.
\* A URL is the tuple of its pieces, every slash at its end a piece.
Resource(type, id) == [type |-> type, id |-> id]
ServiceIndex(kind, resources) == [kind |-> kind, resources |-> resources]
FeedIndex ==
    ServiceIndex("json",
             << Resource("SearchQueryService", Str(<<"https://search">>)),
                Resource("PackageBaseAddress/3.0.0", Str(<<"https://flat", "/">>)) >>)
NoIndex == ServiceIndex("error", <<>>)

\* str::trim_end_matches('/')
RECURSIVE TrimEndMatches(_)
TrimEndMatches(url) ==
    IF url # <<>> /\ url[Len(url)] = "/"
    THEN TrimEndMatches(SubSeq(url, 1, Len(url) - 1))
    ELSE url

\* a faulty client: the address found is returned and not kept
EnsurePackageBaseAddressForgetful(base, index) ==
    LET fail(kind) == [ok |-> FALSE, base |-> base, url |-> NoBase, fetched |-> 1,
                       err |-> kind]
        hits == {i \in 1..Len(index.resources) :
                    index.resources[i].type = "PackageBaseAddress/3.0.0"}
        at == Find(hits)
    IN IF base # NoBase
       THEN [ok |-> TRUE, base |-> base, url |-> base, fetched |-> 0, err |-> "none"]
       ELSE IF index.kind = "error" THEN fail("fetch")
       ELSE IF index.kind = "malformed" THEN fail("parse")
       ELSE IF index.kind = "noarray" THEN fail("resources")
       ELSE IF at = 0 \/ ~index.resources[at].id.isStr THEN fail("address")
       ELSE [ok |-> TRUE, base |-> NoBase,
             url |-> TrimEndMatches(index.resources[at].id.text),
             fetched |-> 1, err |-> "none"]

\* ensure_package_base_address: the memoized address, or else the "@id" of
\* the first PackageBaseAddress/3.0.0 resource of the service index, which is
\* then memoized; base is the field the call leaves, url the address it
\* returns, fetched the number of requests for the index
EnsurePackageBaseAddress(base, index) ==
    LET fail(kind) == [ok |-> FALSE, base |-> base, url |-> NoBase, fetched |-> 1,
                       err |-> kind]
        hits == {i \in 1..Len(index.resources) :
                    index.resources[i].type = "PackageBaseAddress/3.0.0"}
        at == Find(hits)
    IN IF base # NoBase
       THEN [ok |-> TRUE, base |-> base, url |-> base, fetched |-> 0, err |-> "none"]
       ELSE IF index.kind = "error" THEN fail("fetch")
       ELSE IF index.kind = "malformed" THEN fail("parse")
       ELSE IF index.kind = "noarray" THEN fail("resources")
       ELSE IF at = 0 \/ ~index.resources[at].id.isStr THEN fail("address")
       ELSE [ok |-> TRUE, base |-> TrimEndMatches(index.resources[at].id.text),
             url |-> TrimEndMatches(index.resources[at].id.text),
             fetched |-> 1, err |-> "none"]

\* zed::make_file_executable: chmod of an existing file
MakeFileExecutable(dirs, path, chmodOk) == chmodOk /\ RIsFile(dirs, path)

\* util::remove_outdated_versions (src/language_servers/util.rs): every other
\* roslyn-* directory is removed
RemoveOutdatedVersions(dirs, keep) ==
    [v \in Versions |-> IF v = keep THEN dirs[v] ELSE NoTools]

\* zed::download_file(url, version_dir, Zip): the package is extracted into
\* the version directory itself; a failed download may leave a part of it
DownloadAndExtract(dirs, v, fault, pkg) ==
    CASE fault = "download" -> dirs
      [] fault = "partial" -> [dirs EXCEPT ![v] = IF @ = NoTools THEN PartialTools ELSE @]
      [] fault = "cut" -> [dirs EXCEPT ![v] = PartialWithServer]
      [] OTHER -> [dirs EXCEPT ![v] = pkg]

RoslynUserPaths ==
    {[abs |-> TRUE, dir |-> "/opt/tools", ver |-> 0, tfm |-> "", rid |-> "", file |-> "roslyn-ls"]}
SettingsArgs == {<<>>, <<"--logLevel">>}

\* language_server_cmd after the memory cache missed: the state and result it
\* leaves, as [dirs, has, cache, res]
Acquire(new, userArgs, fault, pkg) ==
    LET rid == Rid(platform)
        base == EnsurePackageBaseAddress(baseAddr,
                                         IF fault = "index" THEN NoIndex ELSE FeedIndex)
        r0 == [new EXCEPT !.nindex = base.fetched]
        err(rec, dirs, has, kind) ==
            [dirs |-> dirs, has |-> has, cache |-> rcached,
             res |-> [rec EXCEPT !.status = "err", !.err = kind]]
        v == feed
        found == FindServerPath(rdir, rid, v)
        installed == found.ok /\ RIsFile(rdir, found.server.path)
        r1 == [r0 EXCEPT !.nlist = 1]
        r2 == IF installed THEN [r1 EXCEPT !.branch = "disk"]
              ELSE [r1 EXCEPT !.branch = "fresh", !.ndl = 1]
        d1 == IF installed THEN rdir ELSE DownloadAndExtract(rdir, v, fault, pkg)
        d2 == IF installed THEN rdir ELSE RemoveOutdatedVersions(d1, v)
        r3 == IF installed THEN r2 ELSE [r2 EXCEPT !.pruned = TRUE]
        again == FindServerPath(d2, rid, v)
    IN IF ~base.ok THEN err(r0, rdir, base.base, "index")
       ELSE IF fault = "versions" THEN err(r1, rdir, base.base, "versions")
       ELSE IF ~installed /\ fault \in {"download", "partial", "cut"}
            THEN err(r2, d1, base.base, "download")
       ELSE IF ~installed /\ fault = "prune" THEN err(r2, d1, base.base, "prune")
       ELSE IF ~again.ok THEN err(r3, d2, base.base, "tfm")
       ELSE IF again.server.kind = "Exe"
               /\ ~MakeFileExecutable(d2, again.server.path, fault # "chmod")
            THEN err(r3, d2, base.base, "chmod")
       ELSE [dirs |-> d2, has |-> base.base, cache |-> again.server,
             res |-> [r3 EXCEPT !.status = "ok",
                                !.chmod = (again.server.kind = "Exe"),
                                !.command = BuildCommand(again.server, userArgs)]]

\* language_server_cmd: the cached server path is trusted while it is a file
RCacheHit == rcached # NoServer /\ RIsFile(rdir, rcached.path)

\* Roslyn::language_server_cmd
LanguageServerCmd(userPath, userArgs, fault, pkg) ==
    /\ component = "roslyn"
    /\ IF userPath # NoRPath
       THEN /\ rcall' = [NewRCall(rcall, userPath) EXCEPT
                            !.status = "ok", !.branch = "user",
                            !.command = [command |-> userPath, path |-> userPath,
                                         args |-> userArgs]]
            /\ UNCHANGED <<rdir, baseAddr, rcached>>
       ELSE IF RCacheHit
       THEN /\ rcall' = [NewRCall(rcall, userPath) EXCEPT
                            !.status = "ok", !.branch = "memory",
                            !.command = BuildCommand(rcached, userArgs)]
            /\ UNCHANGED <<rdir, baseAddr, rcached>>
       ELSE LET out == Acquire(NewRCall(rcall, userPath), userArgs, fault, pkg)
            IN /\ rcall' = out.res
               /\ rdir' = out.dirs
               /\ baseAddr' = out.has
               /\ rcached' = out.cache
    /\ UNCHANGED <<nv, platform, component, shared, dbgVars, feed>>

\* a new version of the package is listed by the feed
PublishPackage ==
    /\ component = "roslyn"
    /\ feed < MaxVersion
    /\ feed' = feed + 1
    /\ rcall' = IdleRCall
    /\ UNCHANGED <<nv, platform, component, shared, dbgVars, baseAddr, rdir, rcached>>

\* the user (or a cleaner) removes an installed roslyn-<v> directory
RemoveRoslynDir(v) ==
    /\ component = "roslyn"
    /\ rdir[v] # NoTools
    /\ rdir' = [rdir EXCEPT ![v] = NoTools]
    /\ rcall' = IdleRCall
    /\ UNCHANGED <<nv, platform, component, shared, dbgVars, feed, baseAddr, rcached>>

(***************************************************************************)
(* NuGetVersion: strings are sequences of characters                       *)
(***************************************************************************)
Digits == <<"0", "1", "2", "3", "4", "5", "6", "7", "8", "9">>
Uppercase ==
    <<"A", "B", "C", "D", "E", "F", "G", "H", "I", "J", "K", "L", "M",
      "N", "O", "P", "Q", "R", "S", "T", "U", "V", "W", "X", "Y", "Z">>
Lowercase ==
    <<"a", "b", "c", "d", "e", "f", "g", "h", "i", "j", "k", "l", "m",
      "n", "o", "p", "q", "r", "s", "t", "u", "v", "w", "x", "y", "z">>

\* the index of ch in the sequence table (0 when it is not in it)
IndexOf(table, ch) ==
    IF \E i \in DOMAIN table : table[i] = ch
    THEN CHOOSE i \in DOMAIN table : table[i] = ch
    ELSE 0

\* the byte of an ASCII character
Byte(ch) ==
    CASE ch = "+" -> 43
      [] ch = "-" -> 45
      [] ch = "." -> 46
      [] IndexOf(Digits, ch) # 0 -> 47 + IndexOf(Digits, ch)
      [] IndexOf(Uppercase, ch) # 0 -> 64 + IndexOf(Uppercase, ch)
      [] IndexOf(Lowercase, ch) # 0 -> 96 + IndexOf(Lowercase, ch)

\* str::to_ascii_lowercase
ToAsciiLowercase(str) ==
    [i \in DOMAIN str |->
        IF IndexOf(Uppercase, str[i]) # 0
        THEN Lowercase[IndexOf(Uppercase, str[i])] ELSE str[i]]

\* Ord::cmp of integers
CmpInt(x, y) == IF x < y THEN "Less" ELSE IF x > y THEN "Greater" ELSE "Equal"

\* Ord::cmp of strings: byte by byte, a proper prefix is Less
RECURSIVE CmpStr(_, _)
CmpStr(x, y) ==
    IF x = <<>> THEN (IF y = <<>> THEN "Equal" ELSE "Less")
    ELSE IF y = <<>> THEN "Greater"
    ELSE IF Byte(Head(x)) # Byte(Head(y)) THEN CmpInt(Byte(Head(x)), Byte(Head(y)))
    ELSE CmpStr(Tail(x), Tail(y))

\* Ordering::then
Then(first, second) == IF first # "Equal" THEN first ELSE second

\* str::split_once: the pieces around the first ch
SplitOnce(str, ch) ==
    IF \E i \in DOMAIN str : str[i] = ch
    THEN LET i == CHOOSE k \in DOMAIN str :
                     str[k] = ch /\ \A j \in 1..(k - 1) : str[j] # ch
         IN [found |-> TRUE, before |-> SubSeq(str, 1, i - 1),
             after |-> SubSeq(str, i + 1, Len(str))]
    ELSE [found |-> FALSE, before |-> str, after |-> <<>>]

\* str::split: the pieces between every ch, the empty ones included
RECURSIVE Split(_, _)
Split(str, ch) ==
    LET cut == SplitOnce(str, ch)
    IN IF cut.found THEN <<cut.before>> \o Split(cut.after, ch) ELSE <<str>>

\* the value of a string of digits
RECURSIVE DigitsValue(_)
DigitsValue(str) ==
    IF str = <<>> THEN 0
    ELSE 10 * DigitsValue(SubSeq(str, 1, Len(str) - 1))
         + (IndexOf(Digits, str[Len(str)]) - 1)

\* str::parse::<u64>: digits after an optional plus sign (the strings of the
\* model are too short to overflow)
ParseU64(str) ==
    LET digits == IF str # <<>> /\ Head(str) = "+" THEN Tail(str) ELSE str
    IN IF digits # <<>> /\ \A i \in DOMAIN digits : IndexOf(Digits, digits[i]) # 0
       THEN [ok |-> TRUE, val |-> DigitsValue(digits)]
       ELSE [ok |-> FALSE, val |-> 0]

NoVersion ==
    [ok |-> FALSE, major |-> 0, minor |-> 0, patch |-> 0, revision |-> 0,
     pre |-> FALSE, prerelease |-> <<>>, raw |-> <<>>]

\* a faulty parse: an empty prerelease tag is taken for none
ParseEmptyTagDropped(input) ==
    LET cut == SplitOnce(input, "-")
        core == Split(cut.before, ".")
        segments == [i \in DOMAIN core |-> ParseU64(core[i])]
        at(i) == IF i <= Len(segments) THEN segments[i].val ELSE 0
    IN IF (\E i \in DOMAIN segments : ~segments[i].ok) \/ Len(segments) > 4
       THEN NoVersion
       ELSE [ok |-> TRUE, major |-> at(1), minor |-> at(2), patch |-> at(3),
             revision |-> at(4), pre |-> cut.found /\ cut.after # <<>>,
             prerelease |-> cut.after, raw |-> input]

\* a faulty parse: a fifth segment is accepted and dropped
ParseFiveSegments(input) ==
    LET cut == SplitOnce(input, "-")
        core == Split(cut.before, ".")
        segments == [i \in DOMAIN core |-> ParseU64(core[i])]
        at(i) == IF i <= Len(segments) THEN segments[i].val ELSE 0
    IN IF (\E i \in DOMAIN segments : ~segments[i].ok) \/ Len(segments) > 5
       THEN NoVersion
       ELSE [ok |-> TRUE, major |-> at(1), minor |-> at(2), patch |-> at(3),
             revision |-> at(4), pre |-> cut.found, prerelease |-> cut.after,
             raw |-> input]

\* NuGetVersion::parse
Parse(input) ==
    LET cut == SplitOnce(input, "-")
        core == Split(cut.before, ".")
        segments == [i \in DOMAIN core |-> ParseU64(core[i])]
        at(i) == IF i <= Len(segments) THEN segments[i].val ELSE 0
    IN IF (\E i \in DOMAIN segments : ~segments[i].ok) \/ Len(segments) > 4
       THEN NoVersion
       ELSE [ok |-> TRUE, major |-> at(1), minor |-> at(2), patch |-> at(3),
             revision |-> at(4), pre |-> cut.found, prerelease |-> cut.after,
             raw |-> input]

\* a faulty cmp_prerelease_token: both mixed arms answer Less
CmpPrereleaseTokenSameArm(a, b) ==
    LET na == ParseU64(a)
        nb == ParseU64(b)
    IN IF na.ok /\ nb.ok THEN CmpInt(na.val, nb.val)
       ELSE IF na.ok \/ nb.ok THEN "Less"
       ELSE CmpStr(ToAsciiLowercase(a), ToAsciiLowercase(b))

\* cmp_prerelease_token
CmpPrereleaseToken(a, b) ==
    LET na == ParseU64(a)
        nb == ParseU64(b)
    IN IF na.ok /\ nb.ok THEN CmpInt(na.val, nb.val)
       ELSE IF na.ok THEN "Less"
       ELSE IF nb.ok THEN "Greater"
       ELSE CmpStr(ToAsciiLowercase(a), ToAsciiLowercase(b))

\* a faulty loop: the tag that runs out of tokens first is the greater
RECURSIVE CmpTokensShorterGreater(_, _)
CmpTokensShorterGreater(aParts, bParts) ==
    IF aParts = <<>> THEN (IF bParts = <<>> THEN "Equal" ELSE "Greater")
    ELSE IF bParts = <<>> THEN "Less"
    ELSE Then(CmpPrereleaseToken(Head(aParts), Head(bParts)),
              CmpTokensShorterGreater(Tail(aParts), Tail(bParts)))

\* the loop of cmp over the tokens of the two prerelease tags
RECURSIVE CmpTokens(_, _)
CmpTokens(aParts, bParts) ==
    IF aParts = <<>> THEN (IF bParts = <<>> THEN "Equal" ELSE "Less")
    ELSE IF bParts = <<>> THEN "Greater"
    ELSE Then(CmpPrereleaseToken(Head(aParts), Head(bParts)),
              CmpTokens(Tail(aParts), Tail(bParts)))

\* a faulty cmp: the revision is left out
CmpNoRevision(self, other) ==
    Then(CmpInt(self.major, other.major),
    Then(CmpInt(self.minor, other.minor),
    Then(CmpInt(self.patch, other.patch),
         IF ~self.pre /\ ~other.pre THEN "Equal"
         ELSE IF ~self.pre THEN "Greater"
         ELSE IF ~other.pre THEN "Less"
         ELSE CmpTokens(Split(self.prerelease, "."),
                        Split(other.prerelease, ".")))))

\* impl Ord for NuGetVersion
Cmp(self, other) ==
    Then(CmpInt(self.major, other.major),
    Then(CmpInt(self.minor, other.minor),
    Then(CmpInt(self.patch, other.patch),
    Then(CmpInt(self.revision, other.revision),
         IF ~self.pre /\ ~other.pre THEN "Equal"
         ELSE IF ~self.pre THEN "Greater"
         ELSE IF ~other.pre THEN "Less"
         ELSE CmpTokens(Split(self.prerelease, "."),
                        Split(other.prerelease, "."))))))

\* impl PartialEq for NuGetVersion
Eq(self, other) == Cmp(self, other) = "Equal"

(***************************************************************************)
(* Version strings under parse and cmp                                     *)
(***************************************************************************)
\* the pieces joined by ch
RECURSIVE Join(_, _)
Join(parts, ch) ==
    IF Len(parts) = 1 THEN Head(parts)
    ELSE Head(parts) \o <<ch>> \o Join(Tail(parts), ch)

\* tokens of a prerelease tag: empty, numeric, letters of either case
Tokens == { <<>>, <<"2">>, <<"1", "0">>, <<"a">>, <<"B">> }

\* the tags of up to MaxTokens tokens, and some with other tokens
Tags ==
    { Join(t, ".") : t \in UNION { [1..n -> Tokens] : n \in 1..MaxTokens } }
    \cup { <<"A">>, <<"+", "2">>, <<"0", "2">>, <<"r", "c">>, <<"a", "-", "b">> }

MainCore == <<"1", ".", "0", ".", "0">>

OtherCores ==
    { <<"1">>, <<"1", ".", "0", ".", "0", ".", "0">>, <<"1", ".", "2">>,
      <<"2", ".", "0">>, <<"1", ".", "0", ".", "1">>,
      <<"1", ".", "0", ".", "0", ".", "1">>, <<"0", "1", ".", "0">> }

\* strings parse rejects
Rejected ==
    { <<>>, <<"1", ".", "0", ".", "0", ".", "0", ".", "0">>, <<"a", ".", "1">>,
      <<"1", ".", ".", "0">>, <<"-", "a">>, <<"1", ".", "0", "+", "b">>,
      <<"1", ".">>, <<"1", ".", "0", ".", "0", ".", "0", ".", "0", "-", "a">> }

\* the version strings of the examples
Beta == <<"1", ".", "0", ".", "0", "-", "b", "e", "t", "a">>
Alpha == <<"2", ".", "0", ".", "0", "-", "a", "l", "p", "h", "a">>
Alpha1 == <<"2", ".", "0", ".", "0", "-", "a", "l", "p", "h", "a", ".", "1">>
Alpha2 == <<"2", ".", "0", ".", "0", "-", "a", "l", "p", "h", "a", ".", "2">>
OneNine == <<"1", ".", "9">>
OneTen == <<"1", ".", "1", "0">>
OneTwoZeroZero == <<"1", ".", "2", ".", "0", ".", "0">>
PlusOne == <<"+", "1", ".", "0", "-", "-">>
Examples ==
    { Beta, Alpha, Alpha1, Alpha2, OneNine, OneTen, OneTwoZeroZero, PlusOne }

VersionStrings ==
    { MainCore \o <<"-">> \o t : t \in Tags }
    \cup { c \o <<"-">> \o t : c \in OtherCores, t \in { <<>>, <<"a">> } }
    \cup { MainCore } \cup OtherCores \cup Rejected \cup Examples

Accepted == { x \in VersionStrings : Parse(x).ok }

\* cmp of every two accepted strings, computed once
Order == [x \in Accepted |-> [y \in Accepted |-> Cmp(Parse(x), Parse(y))]]

NoCompare ==
    [pc |-> "none", a |-> <<>>, b |-> <<>>, pa |-> NoVersion, pb |-> NoVersion,
     ab |-> "none", ba |-> "none", aa |-> "none", eq |-> FALSE,
     list |-> <<>>, result |-> [ok |-> FALSE, raw |-> <<>>]]

\* NuGetVersion::parse applied to the two strings
ParsePair ==
    /\ nv.pc = "raw"
    /\ nv' = [nv EXCEPT !.pa = Parse(nv.a), !.pb = Parse(nv.b),
                        !.pc = IF Parse(nv.a).ok /\ Parse(nv.b).ok
                               THEN "parsed" ELSE "rejected"]
    /\ UNCHANGED <<platform, component, shared, dbgVars, roslynVars>>

\* cmp applied to the two versions, both ways, and to the first with
\* itself, and == applied to the two
ComparePair ==
    /\ nv.pc = "parsed"
    /\ nv' = [nv EXCEPT !.pc = "compared",
                        !.ab = Cmp(nv.pa, nv.pb),
                        !.ba = Cmp(nv.pb, nv.pa),
                        !.aa = Cmp(nv.pa, nv.pa),
                        !.eq = Eq(nv.pa, nv.pb)]
    /\ UNCHANGED <<platform, component, shared, dbgVars, roslynVars>>

(***************************************************************************)
(* The version list of the feed                                            *)
(***************************************************************************)
ListEntries ==
    { Str(MainCore), Str(<<"1", ".", "0", ".", "0", ".", "0">>), Str(Beta),
      Str(<<"1", ".", "0", ".", "1">>), Str(Alpha1), Str(Alpha2),
      Str(<<"a", ".", "1">>), NotStr }

ExampleList ==
    << Str(MainCore), Str(Beta), Str(<<"1", ".", "0", ".", "1">>),
       Str(Alpha1), Str(Alpha2) >>

\* the arrays the feed answers with
Lists ==
    UNION { [1..n -> ListEntries] : n \in 0..MaxList } \cup { ExampleList }

\* a faulty selection: the first version that parses
MaxOfFirst(versions) ==
    IF versions = <<>> THEN NoVersion ELSE Head(versions)

\* Iterator::max: of several maxima the last one
RECURSIVE MaxOf(_)
MaxOf(versions) ==
    IF versions = <<>> THEN NoVersion
    ELSE IF Len(versions) = 1 THEN Head(versions)
    ELSE LET front == MaxOf(SubSeq(versions, 1, Len(versions) - 1))
             last == versions[Len(versions)]
         IN IF Cmp(front, last) = "Greater" THEN front ELSE last

\* filter_map(|v| v.as_str()).filter_map(NuGetVersion::parse)
RECURSIVE ParsedVersions(_)
ParsedVersions(list) ==
    IF list = <<>> THEN <<>>
    ELSE LET v == IF Head(list).isStr THEN Parse(Head(list).text) ELSE NoVersion
         IN (IF v.ok THEN <<v>> ELSE <<>>) \o ParsedVersions(Tail(list))

\* get_latest_version, from the versions array on
LatestOf(list) ==
    LET best == MaxOf(ParsedVersions(list))
    IN IF best.ok THEN [ok |-> TRUE, raw |-> best.raw]
       ELSE [ok |-> FALSE, raw |-> <<>>]

GetLatestVersion ==
    /\ nv.pc = "listed"
    /\ nv' = [nv EXCEPT !.pc = "selected", !.result = LatestOf(nv.list)]
    /\ UNCHANGED <<platform, component, shared, dbgVars, roslynVars>>

Init ==
    /\ platform \in Platforms
    /\ component \in {"netcoredbg", "roslyn"}
    /\ shared = TRUE
    /\ latest = 1
    /\ vdir = [v \in Versions |-> {}]
    /\ staging = [n \in TempNames |-> {}]
    /\ cached = [m \in Managers |-> NoPath]
    /\ call = [c \in Callers |-> IdleCall]
    /\ feed = 1
    /\ baseAddr = NoBase
    /\ rdir = [v \in Versions |-> NoTools]
    /\ rcached = NoServer
    /\ rcall = IdleRCall
    /\ nv = NoCompare

\* the steps of get_binary_path for the callers in C
ManagerNext(C) ==
    \/ \E c \in C, user \in UserPaths \cup {NoPath} : GetBinaryPath(c, user)
    \/ \E c \in C, netOk \in BOOLEAN, assets \in AssetLists, cwdOk \in BOOLEAN :
          CheckDisk(c, netOk, assets, cwdOk)
    \/ \E c \in C, netOk \in BOOLEAN, assets \in AssetLists, stamp \in Stamps,
          mkdirOk \in BOOLEAN : BeginInstall(c, netOk, assets, stamp, mkdirOk)
    \/ \E c \in C, dlOk \in BOOLEAN, archive \in Archives(platform) :
          Download(c, dlOk, archive)
    \/ \E c \in C, mkdirOk \in BOOLEAN : Locate(c, mkdirOk)
    \/ \E c \in C, f \in Files(platform), ioOk \in BOOLEAN : CopyFile(c, f, ioOk)
    \/ \E c \in C, chmodOk \in BOOLEAN, cwdOk \in BOOLEAN : FinishInstall(c, chmodOk, cwdOk)
    \/ \E c \in C : CacheAndValidate(c)

ManagerEnv ==
    \/ PublishRelease
    \/ \E v \in Versions : RemoveVersionDir(v)

RoslynNext ==
    \/ \E userPath \in RoslynUserPaths, userArgs \in SettingsArgs :
          LanguageServerCmd(userPath, userArgs, "none", PartialTools)
    \/ \E userArgs \in SettingsArgs, fault \in {"none", "prune", "chmod"},
          pkg \in Packages : LanguageServerCmd(NoRPath, userArgs, fault, pkg)
    \/ \E userArgs \in SettingsArgs,
          fault \in {"index", "versions", "download", "partial", "cut"} :
          LanguageServerCmd(NoRPath, userArgs, fault, PartialTools)
    \/ PublishPackage
    \/ \E v \in Versions : RemoveRoslynDir(v)

\* one extension instance: its calls are serialised (&mut self), the
\* environment acts between the blocking primitives of a call
Next == ManagerNext({"c1"}) \/ ManagerEnv \/ RoslynNext

Spec == Init /\ [][Next]_vars

(***************************************************************************)
(* Two callers of get_binary_path                                          *)
(***************************************************************************)
\* Two debug sessions ask for the binary at once through one BinaryManager.
InitRace ==
    /\ platform = [os |-> "Linux", arch |-> "X8664"]
    /\ component = "netcoredbg"
    /\ shared = TRUE
    /\ latest = 1
    /\ vdir = [v \in Versions |-> {}]
    /\ staging = [n \in TempNames |-> {}]
    /\ cached = [m \in Managers |-> NoPath]
    /\ call = [c \in Callers |-> IdleCall]
    /\ feed = 1
    /\ baseAddr = NoBase
    /\ rdir = [v \in Versions |-> NoTools]
    /\ rcached = NoServer
    /\ rcall = IdleRCall
    /\ nv = NoCompare

\* the clock readings of two attempts: the same one or two different ones
RaceStamps == {1, MaxStamp}

\* The registry, the network and the system calls answer and the archive is
\* complete; what goes wrong comes from the other caller and from the
\* environment.
NextRace ==
    \/ \E c \in Callers : GetBinaryPath(c, NoPath)
    \/ \E c \in Callers : CheckDisk(c, TRUE, ReleaseAssets, TRUE)
    \/ \E c \in Callers, stamp \in RaceStamps :
          BeginInstall(c, TRUE, ReleaseAssets, stamp, TRUE)
    \/ \E c \in Callers : Download(c, TRUE, Files(platform))
    \/ \E c \in Callers : Locate(c, TRUE)
    \/ \E c \in Callers, f \in Files(platform) : CopyFile(c, f, TRUE)
    \/ \E c \in Callers : FinishInstall(c, TRUE, TRUE)
    \/ \E c \in Callers : CacheAndValidate(c)
    \/ PublishRelease
    \/ \E v \in Versions : RemoveVersionDir(v)

SpecRace == InitRace /\ [][NextRace]_vars

(***************************************************************************)
(* Two extension processes in one working directory                        *)
(***************************************************************************)
\* Each process has its own BinaryManager (shared = FALSE); the version
\* directories and the staging directories lie in the directory they share.
InitProcs ==
    /\ platform \in { [os |-> o, arch |-> "X8664"] : o \in {"Linux", "Windows"} }
    /\ component = "netcoredbg"
    /\ shared = FALSE
    /\ latest = 1
    /\ vdir = [v \in Versions |-> {}]
    /\ staging = [n \in TempNames |-> {}]
    /\ cached = [m \in Managers |-> NoPath]
    /\ call = [c \in Callers |-> IdleCall]
    /\ feed = 1
    /\ baseAddr = NoBase
    /\ rdir = [v \in Versions |-> NoTools]
    /\ rcached = NoServer
    /\ rcall = IdleRCall
    /\ nv = NoCompare

\* SystemTime::now() as read by the two processes at different instants
ClockOf(c) == IF c = "c1" THEN 1 ELSE MaxStamp

\* The registry, the network and the system calls answer, the archive is
\* complete and no release is published meanwhile: what goes wrong comes
\* from the other process.
NextProcs ==
    \/ \E c \in Callers : GetBinaryPath(c, NoPath)
    \/ \E c \in Callers : CheckDisk(c, TRUE, ReleaseAssets, TRUE)
    \/ \E c \in Callers : BeginInstall(c, TRUE, ReleaseAssets, ClockOf(c), TRUE)
    \/ \E c \in Callers : Download(c, TRUE, Files(platform))
    \/ \E c \in Callers : Locate(c, TRUE)
    \/ \E c \in Callers, f \in Files(platform) : CopyFile(c, f, TRUE)
    \/ \E c \in Callers : FinishInstall(c, TRUE, TRUE)
    \/ \E c \in Callers : CacheAndValidate(c)

SpecProcs == InitProcs /\ [][NextProcs]_vars

(***************************************************************************)
(* get_dap_binary in front of the binary manager                           *)
(***************************************************************************)
\* CsharpExtension::ADAPTER_NAME
ADAPTER_NAME == "netcoredbg"

AdapterNames == {ADAPTER_NAME, "lldb"}

\* The debug configuration as JSON: its "request" member ("missing" when
\* there is none, "number" when it is not a string) and the kind of its
\* "processId" member.
DebugConfigs ==
    [request : {"launch", "attach", "restart", "number", "missing"},
     processId : {"missing", "null", "int", "string", "bool"}]

\* serde_json::from_str::<NetCoreDbgDebugConfig>: request is a required
\* String, process_id an optional ProcessId (Int or String, null is None)
ParseConfig(config) ==
    IF config.request \in {"number", "missing"} \/ config.processId = "bool"
    THEN [ok |-> FALSE, request |-> "", process_id |-> "none"]
    ELSE [ok |-> TRUE, request |-> config.request,
          process_id |-> IF config.processId \in {"missing", "null"}
                         THEN "none" ELSE config.processId]

\* a faulty validation: an attach request without a process id is let through
RejectionNoProcessId(adapter, config) ==
    LET parsed == ParseConfig(config) IN
    IF adapter # ADAPTER_NAME THEN "adapter"
    ELSE IF ~parsed.ok THEN "parse"
    ELSE IF parsed.request \notin {"launch", "attach"} THEN "request"
    ELSE "none"

\* get_dap_binary up to the call of get_binary_path: the error it returns
\* ("none" when the request goes on to the binary manager)
Rejection(adapter, config) ==
    LET parsed == ParseConfig(config) IN
    IF adapter # ADAPTER_NAME THEN "adapter"
    ELSE IF ~parsed.ok THEN "parse"
    ELSE IF parsed.request \notin {"launch", "attach"} THEN "request"
    ELSE IF parsed.request = "attach" /\ parsed.process_id = "none" THEN "processId"
    ELSE "none"

\* dap_request_kind: the same decision taken on the raw JSON value
DapRequestKind(adapter, config) ==
    IF adapter # ADAPTER_NAME THEN "adapter"
    ELSE IF config.request = "launch" THEN "none"
    ELSE IF config.request = "attach"
         THEN IF config.processId \in {"missing", "null"} THEN "processId" ELSE "none"
    ELSE IF config.request \in {"number", "missing"} THEN "missing"
    ELSE "request"

\* a get_dap_binary request: where it stands, its arguments and its result
NoDap ==
    [pc |-> "idle", adapter |-> "", config |-> [request |-> "missing", processId |-> "missing"],
     user |-> NoPath, status |-> "none", err |-> "none", command |-> NoPath,
     kind |-> "none"]

\* get_dap_binary: the validation, then the call of get_binary_path
GetDapBinary(c, adapter, config, user) ==
    /\ component = "netcoredbg"
    /\ nv.pc \in {"idle", "returned"}
    /\ call[c].pc = "idle"
    /\ LET why == Rejection(adapter, config)
           req == [NoDap EXCEPT !.adapter = adapter, !.config = config, !.user = user,
                                !.kind = DapRequestKind(adapter, config)]
       IN IF why # "none"
          THEN /\ nv' = [req EXCEPT !.pc = "returned", !.status = "err", !.err = why]
               /\ UNCHANGED call
          ELSE /\ nv' = [req EXCEPT !.pc = "acquiring"]
               /\ call' = [call EXCEPT ![c] = EnterGetBinaryPath(@, c, user)]
    /\ UNCHANGED <<platform, component, shared, roslynVars, latest, vdir, staging, cached>>

\* get_dap_binary after get_binary_path returned: its error is passed on,
\* its path becomes the command unless the connection template fails
DapReturn(c, tcpOk) ==
    /\ nv.pc = "acquiring"
    /\ call[c].pc = "idle"
    /\ nv' = IF call[c].status = "err"
             THEN [nv EXCEPT !.pc = "returned", !.status = "err", !.err = call[c].err]
             ELSE IF ~tcpOk
             THEN [nv EXCEPT !.pc = "returned", !.status = "err", !.err = "tcp"]
             ELSE [nv EXCEPT !.pc = "returned", !.status = "ok", !.command = call[c].path]
    /\ UNCHANGED <<platform, component, shared, dbgVars, roslynVars>>

InitDap ==
    /\ platform \in { [os |-> o, arch |-> "X8664"] : o \in {"Linux", "Windows"} }
    /\ component = "netcoredbg"
    /\ shared = TRUE
    /\ latest = 1
    /\ vdir = [v \in Versions |-> {}]
    /\ staging = [n \in TempNames |-> {}]
    /\ cached = [m \in Managers |-> NoPath]
    /\ call = [c \in Callers |-> IdleCall]
    /\ feed = 1
    /\ baseAddr = NoBase
    /\ rdir = [v \in Versions |-> NoTools]
    /\ rcached = NoServer
    /\ rcall = IdleRCall
    /\ nv = NoDap

\* get_binary_path is entered through get_dap_binary only; the registry
\* may fail, the archive is complete, versions get removed by the user
NextDap ==
    \/ \E adapter \in AdapterNames, config \in DebugConfigs,
          user \in {NoPath} \cup {u \in UserPaths : u.abs} :
          GetDapBinary("c1", adapter, config, user)
    \/ \E tcpOk \in BOOLEAN : DapReturn("c1", tcpOk)
    \/ \E netOk \in BOOLEAN : CheckDisk("c1", netOk, ReleaseAssets, TRUE)
    \/ BeginInstall("c1", TRUE, ReleaseAssets, 1, TRUE)
    \/ Download("c1", TRUE, Files(platform))
    \/ Locate("c1", TRUE)
    \/ \E f \in Files(platform) : CopyFile("c1", f, TRUE)
    \/ FinishInstall("c1", TRUE, TRUE)
    \/ CacheAndValidate("c1")
    \/ \E v \in Versions : RemoveVersionDir(v)

SpecDap == InitDap /\ [][NextDap]_vars

(***************************************************************************)
(* Two version strings, parsed and compared                                *)
(***************************************************************************)
InitVer ==
    /\ platform = [os |-> "Linux", arch |-> "X8664"]
    /\ component = "roslyn"
    /\ shared = TRUE
    /\ latest = 1
    /\ vdir = [v \in Versions |-> {}]
    /\ staging = [n \in TempNames |-> {}]
    /\ cached = [m \in Managers |-> NoPath]
    /\ call = [c \in Callers |-> IdleCall]
    /\ feed = 1
    /\ baseAddr = NoBase
    /\ rdir = [v \in Versions |-> NoTools]
    /\ rcached = NoServer
    /\ rcall = IdleRCall
    /\ nv \in { [NoCompare EXCEPT !.pc = "raw", !.a = x, !.b = y] :
                 x \in VersionStrings, y \in VersionStrings }

NextVer == ParsePair \/ ComparePair

SpecVer == InitVer /\ [][NextVer]_vars

(***************************************************************************)
(* A version list under get_latest_version                                 *)
(***************************************************************************)
InitFeed ==
    /\ platform = [os |-> "Linux", arch |-> "X8664"]
    /\ component = "roslyn"
    /\ shared = TRUE
    /\ latest = 1
    /\ vdir = [v \in Versions |-> {}]
    /\ staging = [n \in TempNames |-> {}]
    /\ cached = [m \in Managers |-> NoPath]
    /\ call = [c \in Callers |-> IdleCall]
    /\ feed = 1
    /\ baseAddr = NoBase
    /\ rdir = [v \in Versions |-> NoTools]
    /\ rcached = NoServer
    /\ rcall = IdleRCall
    /\ nv \in { [NoCompare EXCEPT !.pc = "listed", !.list = l] : l \in Lists }

NextFeed == GetLatestVersion

SpecFeed == InitFeed /\ [][NextFeed]_vars

(***************************************************************************)
(* A release under fetch_latest_release                                    *)
(***************************************************************************)
\* the names a release may carry beside the expected one: a longer name that
\* starts with it, one that ends with it, one that differs in case only and
\* an unrelated one
AssetNames(plat) ==
    LET asset == GetPlatformAssetName(plat)
        e == IF asset.ok THEN asset.name
             ELSE <<"netcoredbg-", "linux-amd64", ".tar.gz">>
    IN { e, e \o <<".sha256">>, <<"old-">> \o e, <<"NetCoreDbg-", e[2], e[3]>>,
         <<"netcoredbg-", "src", ".zip">> }

Releases(plat) ==
    { Release(names) :
         names \in UNION { [1..n -> AssetNames(plat)] : n \in 0..MaxAssets } }

NoFetch ==
    [pc |-> "none", netOk |-> FALSE, tag |-> 0, assets |-> <<>>, rel |-> NoRelease]

\* fetch_latest_release on the release the registry holds
FetchRelease ==
    /\ nv.pc = "released"
    /\ nv' = [nv EXCEPT !.pc = "fetched",
                        !.rel = FetchLatestRelease(nv.netOk, nv.tag, nv.assets, platform)]
    /\ UNCHANGED <<platform, component, shared, dbgVars, roslynVars>>

InitFetch ==
    /\ platform \in Platforms
    /\ component = "netcoredbg"
    /\ shared = TRUE
    /\ latest = 1
    /\ vdir = [v \in Versions |-> {}]
    /\ staging = [n \in TempNames |-> {}]
    /\ cached = [m \in Managers |-> NoPath]
    /\ call = [c \in Callers |-> IdleCall]
    /\ feed = 1
    /\ baseAddr = NoBase
    /\ rdir = [v \in Versions |-> NoTools]
    /\ rcached = NoServer
    /\ rcall = IdleRCall
    /\ nv \in { [NoFetch EXCEPT !.pc = "released", !.netOk = ok, !.tag = t, !.assets = a] :
                 ok \in BOOLEAN, t \in Versions, a \in Releases(platform) }

NextFetch == FetchRelease

SpecFetch == InitFetch /\ [][NextFetch]_vars

(***************************************************************************)
(* An extracted tree under find_binary_in_extracted_content                *)
(***************************************************************************)
\* directories of up to MaxEntries entries from E, no name twice
Listings(E) ==
    { l \in UNION { [1..n -> E] : n \in 0..MaxEntries } :
         \A i, j \in 1..Len(l) : i # j => l[i].name # l[j].name }

\* what an archive may hold: the executable, the executable of the other
\* operating systems (a near miss of the name), and directories, one of
\* them bearing the executable's name
OtherName(plat) ==
    IF plat.os = "Windows" THEN "netcoredbg" ELSE "netcoredbg.exe"

Leaves(plat) ==
    { File(GetExecutableName(plat)), File(OtherName(plat)),
      Dir(GetExecutableName(plat), <<>>), Dir("lib", <<>>) }

Nested(plat) ==
    { File(GetExecutableName(plat)), File(OtherName(plat)) }
       \cup { Dir(n, l) : n \in {GetExecutableName(plat), "lib"},
                          l \in Listings(Leaves(plat)) }

\* the extracted trees: two levels of directories, bare or inside the one
\* top directory of the archive
Trees(plat) ==
    Listings(Nested(plat))
       \cup { <<Dir("netcoredbg", l)>> : l \in Listings(Nested(plat)) }

NoSearch == [pc |-> "none", tree |-> <<>>, found |-> NotFound, err |-> "none"]

\* find_binary_in_extracted_content on an extracted tree
FindBinary ==
    /\ nv.pc = "extracted"
    /\ LET res == FindBinaryInTree(nv.tree, GetExecutableName(platform))
       IN nv' = [nv EXCEPT !.pc = "searched",
                           !.found = [ok |-> res.ok, path |-> res.path],
                           !.err = res.err]
    /\ UNCHANGED <<platform, component, shared, dbgVars, roslynVars>>

InitTree ==
    /\ platform \in { [os |-> o, arch |-> "X8664"] : o \in {"Linux", "Windows"} }
    /\ component = "netcoredbg"
    /\ shared = TRUE
    /\ latest = 1
    /\ vdir = [v \in Versions |-> {}]
    /\ staging = [n \in TempNames |-> {}]
    /\ cached = [m \in Managers |-> NoPath]
    /\ call = [c \in Callers |-> IdleCall]
    /\ feed = 1
    /\ baseAddr = NoBase
    /\ rdir = [v \in Versions |-> NoTools]
    /\ rcached = NoServer
    /\ rcall = IdleRCall
    /\ nv \in { [NoSearch EXCEPT !.pc = "extracted", !.tree = t] : t \in Trees(platform) }

NextTree == FindBinary

SpecTree == InitTree /\ [][NextTree]_vars

(***************************************************************************)
(* One NuGetClient under a sequence of calls                               *)
(***************************************************************************)
\* the resources a service index may list
IndexResources ==
    { Resource("PackageBaseAddress/3.0.0", Str(<<"https://flat", "/">>)),
      Resource("PackageBaseAddress/3.0.0", Str(<<"https://mirror">>)),
      Resource("PackageBaseAddress/3.0.0", Str(<<"https://flat", "/", "/">>)),
      Resource("PackageBaseAddress/3.0.0", NotStr),
      Resource("SearchQueryService", Str(<<"https://search">>)) }

\* the answers to the request for the service index
Indexes ==
    { NoIndex, ServiceIndex("malformed", <<>>), ServiceIndex("noarray", <<>>) }
       \cup { ServiceIndex("json", r) :
                 r \in UNION { [1..n -> IndexResources] : n \in 0..2 } }

\* A call on the client: the field before it, the index the feed would
\* serve, the requests for the index it made (fetched), the base URL of its
\* own request (used) and its result.
NoClientCall ==
    [pc |-> "none", op |-> "none", before |-> NoBase, index |-> NoIndex,
     fetched |-> 0, used |-> NoBase, ok |-> FALSE]

ClientCall(op, index, netOk) ==
    LET base == EnsurePackageBaseAddress(baseAddr, index)
    IN /\ baseAddr' = base.base
       /\ nv' = [pc |-> "called", op |-> op, before |-> baseAddr, index |-> index,
                 fetched |-> base.fetched, used |-> base.url,
                 ok |-> base.ok /\ netOk]
       /\ UNCHANGED <<platform, component, shared, dbgVars, feed, rdir, rcached, rcall>>

\* NuGetClient::get_latest_version: the base address, then the version list
ClientGetLatestVersion(index, listOk) == ClientCall("get_latest_version", index, listOk)

\* NuGetClient::download_and_extract: the base address, then the package
ClientDownloadAndExtract(index, dlOk) == ClientCall("download_and_extract", index, dlOk)

InitClient ==
    /\ platform = [os |-> "Linux", arch |-> "X8664"]
    /\ component = "roslyn"
    /\ shared = TRUE
    /\ latest = 1
    /\ vdir = [v \in Versions |-> {}]
    /\ staging = [n \in TempNames |-> {}]
    /\ cached = [m \in Managers |-> NoPath]
    /\ call = [c \in Callers |-> IdleCall]
    /\ feed = 1
    /\ baseAddr = NoBase
    /\ rdir = [v \in Versions |-> NoTools]
    /\ rcached = NoServer
    /\ rcall = IdleRCall
    /\ nv = NoClientCall

NextClient ==
    \/ \E index \in Indexes, listOk \in BOOLEAN : ClientGetLatestVersion(index, listOk)
    \/ \E index \in Indexes, dlOk \in BOOLEAN : ClientDownloadAndExtract(index, dlOk)

SpecClient == InitClient /\ [][NextClient]_vars

----------------------------------------------------------------------------
\* Steps of one caller, told apart from the steps of the environment

\* caller c enters get_binary_path at this step
Starts(c) ==
    /\ call[c].pc = "idle"
    /\ call'[c].pc # "idle" \/ call'[c].status # "none"

\* caller c performs the disk check of get_binary_path at this step
Resolves(c) == call[c].pc = "resolve" /\ call'[c].pc # "resolve"

\* language_server_cmd runs at this step
RoslynCalls == rcall'.status # "none" /\ rcall' # rcall

\* the version directory of the latest package holds the language server
RoslynInstalled ==
    LET found == FindServerPath(rdir, Rid(platform), feed)
    IN found.ok /\ RIsFile(rdir, found.server.path)

----------------------------------------------------------------------------
\* C1: idempotent reacquisition.  When the version directory of the latest
\* version holds the expected binary, a call without a user override ends
\* at the disk check (or before it, at the memory cache) with no download,
\* no pruning and no change to the directories; when the latest version
\* was resolved the call returns the path under that version directory,
\* and a call served from memory or disk right after a successful one
\* returns the same path or command.
C1_NoDownloadStep ==
    /\ \A c \in Callers :
          (Resolves(c) /\ Exists(BinaryPath(latest, platform))) =>
             /\ call'[c].pc = "idle"
             /\ call'[c].ndl = 0
             /\ call'[c].status = "ok" =>
                   /\ call'[c].branch = "disk"
                   /\ call'[c].path = AbsolutePath(BinaryPath(latest, platform))
             /\ call'[c].status = "err" =>
                   call'[c].err \in {"fetch", "platform", "asset", "cwd"}
             /\ UNCHANGED <<vdir, staging>>
    /\ (RoslynCalls /\ rcall'.arg = NoRPath /\ RoslynInstalled) =>
          /\ rcall'.ndl = 0
          /\ ~rcall'.pruned
          /\ rcall'.status = "ok" => rcall'.branch \in {"memory", "disk"}
          /\ rcall'.status = "err" => rcall'.err \in {"index", "versions", "chmod"}
          /\ UNCHANGED rdir

C1_SamePath ==
    /\ \A c \in Callers :
          (/\ call[c].status = "ok"
           /\ call[c].branch \in {"memory", "disk"}
           /\ call[c].prev # NoPath) =>
             call[c].ndl = 0 /\ call[c].path = call[c].prev
    /\ (/\ rcall.status = "ok"
        /\ rcall.branch \in {"memory", "disk"}
        /\ rcall.prev # NoRPath) =>
          rcall.ndl = 0 /\ ~rcall.pruned /\ rcall.command.path = rcall.prev

C1_IdempotentReacquisition == [][C1_NoDownloadStep]_vars /\ []C1_SamePath

\* a second call answered from disk, the memory cell holding a stale path
C1_Witness ==
    /\ call["c1"].status = "ok"
    /\ call["c1"].branch = "disk"
    /\ call["c1"].prev = call["c1"].path
    /\ cached["m1"] # call["c1"].path

----------------------------------------------------------------------------
\* C2: user override short-circuit.  A call made with a path of the user
\* returns exactly that path at once, with no registry lookup, no download
\* and no write of the memory cache, and the step leaves the memory cache,
\* the version directories and the staging directories as they were,
\* whatever they hold.  The same for language_server_cmd and the path of
\* the settings: no index or version lookup, no download, no pruning.
C2_Result ==
    /\ \A c \in Callers :
          call[c].arg # NoPath =>
             /\ call[c].pc = "idle"
             /\ call[c].status = "ok"
             /\ call[c].branch = "user"
             /\ call[c].path = call[c].arg
             /\ call[c].nfetch = 0 /\ call[c].ndl = 0 /\ ~call[c].wrote
    /\ rcall.arg # NoRPath =>
          /\ rcall.status = "ok"
          /\ rcall.branch = "user"
          /\ rcall.command.command = rcall.arg
          /\ rcall.nindex = 0 /\ rcall.nlist = 0 /\ rcall.ndl = 0
          /\ ~rcall.pruned

C2_Frame ==
    /\ \A c \in Callers :
          (call'[c] # call[c] /\ call'[c].arg # NoPath) =>
             UNCHANGED <<cached, vdir, staging, latest>>
    /\ (RoslynCalls /\ rcall'.arg # NoRPath) =>
          UNCHANGED <<rcached, rdir, baseAddr, feed>>

C2_UserOverride == []C2_Result /\ [][C2_Frame]_vars

\* a relative path of the user returned while the memory cache holds the
\* path of an installed binary
C2_Witness ==
    /\ call["c1"].branch = "user"
    /\ ~call["c1"].path.abs
    /\ CacheHit("m1")

----------------------------------------------------------------------------
\* C3: memory-cache revalidation.  A call returns from the memory cache
\* only a path that exists on the filesystem, and then without a request to
\* the registry; a call that finds the cached path deleted does not return
\* it and goes on to resolve the latest version.
C3_FromMemory ==
    /\ \A c \in Callers :
          call[c].branch = "memory" =>
             /\ call[c].path = cached[Manager(c)]
             /\ Exists(call[c].path)
             /\ call[c].nfetch = 0 /\ call[c].ndl = 0
    /\ rcall.branch = "memory" =>
          /\ rcall.command.path = rcached.path
          /\ RIsFile(rdir, rcall.command.path)
          /\ rcall.nindex = 0 /\ rcall.nlist = 0 /\ rcall.ndl = 0

C3_Step ==
    /\ \A c \in Callers :
          (Starts(c) /\ call'[c].arg = NoPath) =>
             IF cached[Manager(c)] # NoPath /\ Exists(cached[Manager(c)])
             THEN /\ call'[c].branch = "memory"
                  /\ call'[c].path = cached[Manager(c)]
             ELSE call'[c].pc = "resolve"
    /\ (RoslynCalls /\ rcall'.arg = NoRPath) =>
          IF rcached # NoServer /\ RIsFile(rdir, rcached.path)
          THEN rcall'.branch = "memory"
          ELSE /\ rcall'.branch # "memory"
               /\ rcall'.nindex + rcall'.nlist >= 1

C3_MemoryRevalidation == []C3_FromMemory /\ [][C3_Step]_vars

\* a call at the disk check because the path in the memory cache was deleted
C3_Witness ==
    /\ call["c1"].pc = "resolve"
    /\ cached["m1"] # NoPath
    /\ ~Exists(cached["m1"])

----------------------------------------------------------------------------
\* C4: no partial state cached on failure.  A call that returned an error
\* has not written the memory cache: a failed get_binary_path leaves
\* cached_binary_path as it found it.
C4_NoCacheWriteOnError ==
    \A c \in Callers : call[c].status = "err" => ~call[c].wrote

\* get_binary_path fails in validate_binary with the path already cached
C4_Failure ==
    /\ call["c1"].status = "err"
    /\ call["c1"].err = "validate"
    /\ cached["m1"] = AbsolutePath(BinaryPath(latest, platform))

----------------------------------------------------------------------------
\* C5: terminal success.  Every path a successful call returned from the
\* memory cache, from the disk check or from a fresh install is absolute
\* and names an existing regular file, for both components.
C5_TerminalSuccess ==
    /\ \A c \in Callers :
          (call[c].status = "ok" /\ call[c].branch # "user") =>
             call[c].path.abs /\ IsFile(call[c].path)
    /\ (rcall.status = "ok" /\ rcall.branch # "user") =>
          rcall.command.path.abs /\ RIsFile(rdir, rcall.command.path)

\* the part of C5 that get_binary_path meets
C5_Netcoredbg ==
    \A c \in Callers :
       (call[c].status = "ok" /\ call[c].branch # "user") =>
          call[c].path.abs /\ IsFile(call[c].path)

----------------------------------------------------------------------------
\* C6: success populates the memory cache.  After a call that succeeded at
\* the disk check or with a fresh install the memory cache holds exactly
\* the path the call returned, also when the cache held a stale path.
C6_CacheHoldsReturned ==
    /\ \A c \in Callers :
          (call[c].status = "ok" /\ call[c].branch \in {"disk", "fresh"}) =>
             cached[Manager(c)] = call[c].path
    /\ (rcall.status = "ok" /\ rcall.branch \in {"disk", "fresh"}) =>
          rcached.path = rcall.command.path

----------------------------------------------------------------------------
\* C7: write-once memory cell.  Once cached_binary_path of a BinaryManager
\* holds a value no step of any caller, racing or not, changes it; a call
\* that reaches a set of the cell when it is full is not failed by it: at
\* the disk check it returns the path it found, after an install it returns
\* the installed path unless validate_binary rejects that path.
C7_CellKept ==
    \A m \in Managers : cached[m] # NoPath => cached'[m] = cached[m]

C7_SetDiscarded ==
    \A c \in Callers :
       cached[Manager(c)] # NoPath =>
          /\ (Resolves(c) /\ Exists(BinaryPath(latest, platform))) =>
                /\ call'[c].status = "ok"
                /\ call'[c].path = AbsolutePath(BinaryPath(latest, platform))
          /\ (call[c].pc = "cache" /\ call'[c].pc # "cache") =>
                IF ValidateBinary(call[c].bpath)
                THEN call'[c].status = "ok" /\ call'[c].path = call[c].bpath
                ELSE call'[c].status = "err" /\ call'[c].err = "validate"

C7_WriteOnce == [][C7_CellKept /\ C7_SetDiscarded]_vars

\* the second caller of one manager installed a newer release after the
\* first had filled the cell: its set was discarded, its call succeeded
C7_Witness ==
    /\ shared
    /\ call["c2"].status = "ok"
    /\ call["c2"].branch = "fresh"
    /\ ~call["c2"].wrote
    /\ cached["m1"] # NoPath
    /\ cached["m1"] # call["c2"].path

----------------------------------------------------------------------------
\* C8: staging scope.  While a call stands at the download primitive its
\* staging directory exists, and once download_and_extract_binary has
\* returned, with a path or with any of its errors, no staging directory
\* is left: outside download_and_extract_binary every staging directory
\* is absent.
InDownloadAndExtract(c) == call[c].pc \in {"download", "locate", "copy"}

----------------------------------------------------------------------------
\* C9: version total order.  For all strings a, b, c that parse accepts:
\* cmp(a, a) is Equal, cmp(a, b) is the reverse of cmp(b, a), and when
\* cmp(a, b) and cmp(b, c) are Less or Equal so is cmp(a, c); the tags mix
\* numeric, non-numeric, empty and differently-cased tokens.
Reverse(ord) ==
    IF ord = "Less" THEN "Greater" ELSE IF ord = "Greater" THEN "Less" ELSE ord

AtMost(ord) == ord \in {"Less", "Equal"}

C9_TotalOrder ==
    nv.pc = "compared" =>
       /\ nv.aa = "Equal"
       /\ nv.ab \in {"Less", "Equal", "Greater"}
       /\ nv.ab = Reverse(nv.ba)
       /\ \A c \in Accepted :
             (AtMost(nv.ab) /\ AtMost(Order[nv.b][c])) => AtMost(Order[nv.a][c])

\* a numeric token against a letter, the tags of different lengths
C9_Witness ==
    /\ nv.pc = "compared"
    /\ nv.pa.prerelease = <<"1", "0", ".", "a">>
    /\ nv.pb.prerelease = <<"B">>
    /\ nv.ab = "Less"

----------------------------------------------------------------------------
\* C10: release above prerelease.  Of two accepted strings with equal major,
\* minor, patch and revision, the one without a prerelease tag compares
\* Greater than the one with a tag, whatever the tag, the empty one too.
HasTag(str) == \E i \in DOMAIN str : str[i] = "-"

C10_ReleaseAbovePrerelease ==
    (/\ nv.pc = "compared"
     /\ ~HasTag(nv.a) /\ HasTag(nv.b)
     /\ nv.pa.major = nv.pb.major /\ nv.pa.minor = nv.pb.minor
     /\ nv.pa.patch = nv.pb.patch /\ nv.pa.revision = nv.pb.revision) =>
       nv.ab = "Greater" /\ nv.ba = "Less"

\* "1" compared with "1.0.0-"
C10_Witness ==
    /\ nv.pc = "compared"
    /\ nv.a = <<"1">>
    /\ nv.b = MainCore \o <<"-">>
    /\ nv.ab = "Greater"

----------------------------------------------------------------------------
\* C11: prerelease tie-break.  When two versions have equal numeric cores
\* and both carry a tag, the tags decide as sequences of dot-separated
\* tokens: at the first position where the tokens differ, two integers
\* compare by value, an integer is Less than a non-integer, two
\* non-integers compare as lowercased strings; when no position differs
\* the tag with fewer tokens is Less.  So 2.0.0-alpha < 2.0.0-alpha.1 <
\* 2.0.0-alpha.2.
SameCore(x, y) ==
    /\ x.major = y.major /\ x.minor = y.minor
    /\ x.patch = y.patch /\ x.revision = y.revision

\* the tokens of the tag of a version string
TagTokens(str) == Split(SplitOnce(str, "-").after, ".")

IsInteger(token) == ParseU64(token).ok

\* two tokens the order does not tell apart
SameToken(x, y) ==
    IF IsInteger(x) /\ IsInteger(y) THEN ParseU64(x).val = ParseU64(y).val
    ELSE /\ ~IsInteger(x) /\ ~IsInteger(y)
         /\ ToAsciiLowercase(x) = ToAsciiLowercase(y)

C11_PrereleaseTieBreak ==
    (/\ nv.pc = "compared"
     /\ HasTag(nv.a) /\ HasTag(nv.b)
     /\ SameCore(nv.pa, nv.pb)) =>
       LET ta == TagTokens(nv.a)
           tb == TagTokens(nv.b)
           common == 1..(IF Len(ta) < Len(tb) THEN Len(ta) ELSE Len(tb))
           differ == { i \in common : ~SameToken(ta[i], tb[i]) }
       IN IF differ = {}
          THEN nv.ab = CmpInt(Len(ta), Len(tb))
          ELSE LET k == CHOOSE i \in differ : \A j \in differ : i <= j
                   x == ta[k]
                   y == tb[k]
               IN /\ (IsInteger(x) /\ IsInteger(y)) =>
                        nv.ab = CmpInt(ParseU64(x).val, ParseU64(y).val)
                  /\ (IsInteger(x) /\ ~IsInteger(y)) => nv.ab = "Less"
                  /\ (~IsInteger(x) /\ IsInteger(y)) => nv.ab = "Greater"
                  /\ (~IsInteger(x) /\ ~IsInteger(y)) =>
                        nv.ab = CmpStr(ToAsciiLowercase(x), ToAsciiLowercase(y))

C11_Examples ==
    nv.pc = "compared" =>
       /\ (nv.a = Alpha /\ nv.b = Alpha1) => nv.ab = "Less"
       /\ (nv.a = Alpha1 /\ nv.b = Alpha2) => nv.ab = "Less"
       /\ (nv.a = Alpha /\ nv.b = Alpha2) => nv.ab = "Less"

----------------------------------------------------------------------------
\* C12: numeric core precedence.  Versions are ordered by major, minor,
\* patch and revision, each as an integer and before the tags are looked
\* at; a missing trailing segment counts as 0.  So 1.10 is Greater than
\* 1.9, and "1.2" and "1.2.0.0" compare Equal and are equal under ==
\* though their strings differ.
\* the four numbers of the core of a version string
CoreOf(str) ==
    LET segs == Split(SplitOnce(str, "-").before, ".")
    IN [i \in 1..4 |-> IF i <= Len(segs) THEN ParseU64(segs[i]).val ELSE 0]

C12_CoreFirst ==
    nv.pc = "compared" =>
       LET ca == CoreOf(nv.a)
           cb == CoreOf(nv.b)
           differ == { i \in 1..4 : ca[i] # cb[i] }
       IN /\ <<nv.pa.major, nv.pa.minor, nv.pa.patch, nv.pa.revision>> = ca
          /\ differ # {} =>
                LET k == CHOOSE i \in differ : \A j \in differ : i <= j
                IN nv.ab = CmpInt(ca[k], cb[k]) /\ ~nv.eq
          /\ (differ = {} /\ ~HasTag(nv.a) /\ ~HasTag(nv.b)) =>
                nv.ab = "Equal" /\ nv.eq
          /\ nv.eq <=> nv.ab = "Equal"

C12_Examples ==
    nv.pc = "compared" =>
       /\ (nv.a = OneTen /\ nv.b = OneNine) => nv.ab = "Greater"
       /\ (nv.a = <<"1", ".", "2">> /\ nv.b = OneTwoZeroZero) =>
             nv.ab = "Equal" /\ nv.eq /\ nv.pa.raw # nv.pb.raw

C12_NumericCore == C12_CoreFirst /\ C12_Examples

\* "1.2" compared with "1.2.0.0"
C12_Witness ==
    /\ nv.pc = "compared"
    /\ nv.a = <<"1", ".", "2">> /\ nv.b = OneTwoZeroZero
    /\ nv.eq
    /\ nv.pa.raw # nv.pb.raw

----------------------------------------------------------------------------
\* C13: max selection.  get_latest_version returns the string of a maximum
\* among the listed strings that parse, ignores the entries that do not
\* parse or are not strings, and fails exactly when no entry parses: the
\* result is one of the listed strings and no listed version that parses
\* compares Greater than it.  The list 1.0.0, 1.0.0-beta, 1.0.1,
\* 2.0.0-alpha.1, 2.0.0-alpha.2 yields 2.0.0-alpha.2.
Parseable(list) ==
    { i \in DOMAIN list : list[i].isStr /\ Parse(list[i].text).ok }

C13_MaxSelection ==
    nv.pc = "selected" =>
       /\ nv.result.ok <=> Parseable(nv.list) # {}
       /\ nv.result.ok =>
             /\ \E i \in Parseable(nv.list) : nv.list[i].text = nv.result.raw
             /\ \A j \in Parseable(nv.list) :
                   Cmp(Parse(nv.list[j].text), Parse(nv.result.raw)) # "Greater"
       /\ nv.list = ExampleList => nv.result = [ok |-> TRUE, raw |-> Alpha2]

\* a list with an entry that is no string, one that does not parse and a
\* maximum that is not the last entry
C13_Witness ==
    /\ nv.pc = "selected"
    /\ nv.list = << Str(Alpha2), NotStr, Str(<<"a", ".", "1">>) >>
    /\ nv.result = [ok |-> TRUE, raw |-> Alpha2]

----------------------------------------------------------------------------
\* C14: parse acceptance.  parse cuts the input at the first '-' only and
\* accepts exactly when what stands before it is 1 to 4 integers separated
\* by '.': an empty core, an empty segment, a segment that is no integer
\* or a fifth segment make it fail; all that follows the first '-', other
\* '-' included, is the prerelease tag.
\* the positions of ch in str
Positions(str, ch) == { i \in DOMAIN str : str[i] = ch }

\* what stands before the first '-' of str
CorePart(str) ==
    IF Positions(str, "-") = {} THEN str
    ELSE SubSeq(str, 1,
                (CHOOSE i \in Positions(str, "-") :
                    \A j \in Positions(str, "-") : i <= j) - 1)

\* core is 1 to 4 runs of digits, each with an optional plus sign in front,
\* separated by single dots
WellFormedCore(core) ==
    /\ core # <<>>
    /\ Cardinality(Positions(core, ".")) <= 3
    /\ \A i \in DOMAIN core :
          \/ IndexOf(Digits, core[i]) # 0
          \/ /\ core[i] = "+"
             /\ i = 1 \/ core[i - 1] = "."
             /\ i < Len(core) /\ IndexOf(Digits, core[i + 1]) # 0
          \/ /\ core[i] = "."
             /\ 1 < i /\ i < Len(core)
             /\ core[i - 1] # "." /\ core[i + 1] # "."

ParsedAsStated(str, parsed) ==
    /\ parsed.ok <=> WellFormedCore(CorePart(str))
    /\ parsed.ok =>
          /\ parsed.raw = str
          /\ parsed.pre <=> Positions(str, "-") # {}
          /\ parsed.pre =>
                CorePart(str) \o <<"-">> \o parsed.prerelease = str
          /\ <<parsed.major, parsed.minor, parsed.patch, parsed.revision>>
                = CoreOf(str)

----------------------------------------------------------------------------
\* C15: asset-name mapping.  get_platform_asset_name names an asset for
\* every os with a 64-bit architecture and fails for x86 on every os;
\* Linux on x86_64 gets netcoredbg-linux-amd64.tar.gz, Windows on ARM64
\* falls back to netcoredbg-win64.zip, the extension is .zip exactly on
\* Windows and .tar.gz elsewhere, so download_and_extract_binary always
\* finds an archive kind and never returns its unsupported-file-type error.
C15_Mapping ==
    LET asset == GetPlatformAssetName(platform)
    IN /\ asset.ok <=> platform.arch \in {"X8664", "Aarch64"}
       /\ asset.ok =>
             /\ asset.name[1] = "netcoredbg-"
             /\ asset.name[3] = ".zip" <=> platform.os = "Windows"
             /\ asset.name[3] = ".tar.gz" <=> platform.os # "Windows"
             /\ FileType(asset.name) =
                   IF platform.os = "Windows" THEN "Zip" ELSE "GzipTar"
       /\ platform = [os |-> "Linux", arch |-> "X8664"] =>
             asset.name = <<"netcoredbg-", "linux-amd64", ".tar.gz">>
       /\ platform = [os |-> "Windows", arch |-> "Aarch64"] =>
             asset.name = <<"netcoredbg-", "win64", ".zip">>

C15_Calls ==
    \A c \in Callers :
       /\ call[c].err # "filetype"
       /\ call[c].err = "platform" <=>
             (call[c].status = "err" /\ call[c].nfetch > 0
              /\ call[c].err # "fetch" /\ platform.arch = "X86")
       /\ call[c].ftype # "none" =>
             call[c].ftype = IF platform.os = "Windows" THEN "Zip" ELSE "GzipTar"
       /\ call[c].pc \in {"download", "locate", "copy", "cache"} =>
             call[c].ftype # "none"

C15_AssetNameMapping == C15_Mapping /\ C15_Calls

\* Windows on ARM64 at the download of the zip archive
C15_Witness ==
    /\ platform = [os |-> "Windows", arch |-> "Aarch64"]
    /\ call["c1"].pc = "download"
    /\ call["c1"].ftype = "Zip"

----------------------------------------------------------------------------
\* C16: x86 fails fast in every mapping.  On a 32-bit x86 host neither
\* component maps the platform to an artifact: the asset-name mapping of
\* get_binary_path and the runtime-identifier mapping of language_server_cmd
\* both fail, so no call downloads anything and no call installs.
C16_Netcoredbg ==
    platform.arch = "X86" =>
       /\ ~GetPlatformAssetName(platform).ok
       /\ \A c \in Callers :
             /\ call[c].ndl = 0
             /\ call[c].branch # "fresh"
             /\ call[c].pc \notin {"download", "locate", "copy", "cache"}

C16_Roslyn ==
    platform.arch = "X86" =>
       /\ rcall.ndl = 0
       /\ rcall.branch \notin {"fresh", "disk"}

C16_X86FailsFast == C16_Netcoredbg /\ C16_Roslyn

\* language_server_cmd on x86: the identifier "any" is used and the package
\* is downloaded
C16_Failure ==
    /\ platform.arch = "X86"
    /\ Rid(platform) = "any"
    /\ rcall.status = "ok"
    /\ rcall.ndl = 1

----------------------------------------------------------------------------
\* C17: exact asset match.  fetch_latest_release succeeds exactly when the
\* release holds an asset whose name equals the platform's asset name; it
\* then returns the release's tag and the download URL of such an asset,
\* never that of an asset whose name only starts with, ends with or differs
\* in case from the expected name.  With no such asset it fails, and the
\* failure carries the expected name and the names of all assets.
ExactAssets ==
    {i \in 1..Len(nv.assets) : nv.assets[i].name = GetPlatformAssetName(platform).name}

C17_ExactAssetMatch ==
    nv.pc = "fetched" /\ nv.netOk /\ GetPlatformAssetName(platform).ok =>
       /\ nv.rel.ok <=> ExactAssets # {}
       /\ nv.rel.ok =>
             /\ nv.rel.tag = nv.tag
             /\ \E i \in ExactAssets : nv.rel.download_url = nv.assets[i].download_url
             /\ \A i \in 1..Len(nv.assets) :
                   nv.assets[i].download_url = nv.rel.download_url => i \in ExactAssets
       /\ ~nv.rel.ok =>
             /\ nv.rel.err = "asset"
             /\ nv.rel.looking = GetPlatformAssetName(platform).name
             /\ Len(nv.rel.available) = Len(nv.assets)
             /\ \A i \in 1..Len(nv.assets) : nv.rel.available[i] = nv.assets[i].name

\* the expected asset stands behind one whose name starts with its name and
\* one that differs in case only
C17_Witness ==
    /\ nv.pc = "fetched"
    /\ nv.rel.ok
    /\ Len(nv.assets) = 3
    /\ ExactAssets = {3}
    /\ nv.assets[1].name = GetPlatformAssetName(platform).name \o <<".sha256">>
    /\ nv.assets[2].name[1] = "NetCoreDbg-"
    /\ nv.rel.download_url = nv.assets[3].download_url

\* a release without the expected asset: the failure names every asset
C17_WitnessNone ==
    /\ nv.pc = "fetched"
    /\ nv.netOk
    /\ GetPlatformAssetName(platform).ok
    /\ ~nv.rel.ok
    /\ Len(nv.rel.available) = 3

----------------------------------------------------------------------------
\* C18: locator correctness.  On every tree and in every enumeration order,
\* find_binary_in_extracted_content returns a path exactly when the tree
\* holds, at some depth, a regular file whose name is the expected name; the
\* path returned leads to such a file inside the searched directory; a
\* directory of that name and a file of a similar name are never returned;
\* with no such file the search fails with the not-found error.
RECURSIVE FilePaths(_, _)
FilePaths(dir, entries) ==
    UNION { IF entries[i].kind = "file"
            THEN { Append(dir, entries[i].name) }
            ELSE FilePaths(Append(dir, entries[i].name), entries[i].entries) :
            i \in 1..Len(entries) }

Matches ==
    { p \in FilePaths(<<>>, nv.tree) : p[Len(p)] = GetExecutableName(platform) }

C18_LocatorCorrectness ==
    nv.pc = "searched" =>
       /\ nv.found.ok <=> Matches # {}
       /\ nv.found.ok => nv.found.path \in Matches /\ nv.err = "none"
       /\ ~nv.found.ok => nv.err = "notfound" /\ nv.found.path = <<>>

\* the file lies three levels down, after an empty directory that bears its
\* name and after a file of a similar name
C18_Witness ==
    /\ nv.pc = "searched"
    /\ nv.found.ok
    /\ Len(nv.found.path) = 3
    /\ Len(nv.tree[1].entries) = 2
    /\ nv.tree[1].entries[1] = Dir(GetExecutableName(platform), <<>>)
    /\ nv.tree[1].entries[2].kind = "dir"
    /\ nv.tree[1].entries[2].entries[1] = File(OtherName(platform))

\* a tree with a directory of the expected name and no such file
C18_WitnessNone ==
    /\ nv.pc = "searched"
    /\ ~nv.found.ok
    /\ Len(nv.tree) = 2
    /\ nv.tree[1].name = GetExecutableName(platform)

----------------------------------------------------------------------------
\* C19: unique tools subdirectory.  find_server_path succeeds only when the
\* tools folder of the version directory holds exactly one subdirectory: a
\* call of language_server_cmd that resolved the server through it (from
\* disk or after a download) found exactly one, and with none or several it
\* failed with the error that names the folder.
C19_ZeroFails ==
    \A v \in Versions, p \in Platforms :
       rdir[v].order = <<>> => ~FindServerPath(rdir, Rid(p), v).ok

C19_UniqueToolsSubdirectory ==
    /\ C19_ZeroFails
    /\ rcall.status = "ok" /\ rcall.branch \in {"fresh", "disk"} =>
          Len(rdir[feed].order) = 1
    /\ \A v \in Versions, p \in Platforms :
          FindServerPath(rdir, Rid(p), v).ok => Len(rdir[v].order) = 1

\* two subdirectories under tools: the first that read_dir lists is taken
C19_Failure ==
    /\ rcall.status = "ok"
    /\ rcall.branch = "fresh"
    /\ Len(rdir[feed].order) = 2
    /\ rcall.command.path.tfm = rdir[feed].order[1]

----------------------------------------------------------------------------
\* C20: stale-version cleanup.  When a call has ended with a successful
\* fresh install of version V, no directory of another version of the same
\* component is left (netcoredbg_v* for get_binary_path, roslyn-* for
\* language_server_cmd) and the directory of V holds the installed binary.
C20_Netcoredbg ==
    \A c \in Callers :
       call[c].status = "ok" /\ call[c].branch = "fresh" =>
          \A w \in Versions \ {call[c].path.ver} : vdir[w] = {}

C20_Roslyn ==
    rcall.status = "ok" /\ rcall.branch = "fresh" =>
       /\ \A w \in Versions \ {rcall.command.path.ver} : rdir[w] = NoTools
       /\ rdir[rcall.command.path.ver] # NoTools

C20_StaleVersionCleanup == C20_Netcoredbg /\ C20_Roslyn

\* a fresh install of netcoredbg beside the directory of another version
C20_Failure ==
    \E c \in Callers :
       /\ call[c].status = "ok"
       /\ call[c].branch = "fresh"
       /\ Exists(call[c].path)
       /\ \E w \in Versions \ {call[c].path.ver} : vdir[w] # {}

----------------------------------------------------------------------------
\* C21: cleanup never fails an acquisition.  A call of language_server_cmd
\* that downloaded and extracted the new version and found its server
\* binary returns the command for it and caches its path, whatever the
\* pruning of the other versions did: with the server binary in place the
\* only error left to a fresh install is that of chmod.
C21_CleanupNeverFails ==
    rcall.branch = "fresh" /\ RoslynInstalled /\ rcall.err # "chmod" =>
       /\ rcall.status = "ok"
       /\ rcall.command.path.ver = feed
       /\ rcached.path = rcall.command.path

\* the package of the latest version is extracted whole, the call has failed
\* with the error of the pruning step and nothing is cached
C21_Failure ==
    /\ rcall.status = "err"
    /\ rcall.err = "prune"
    /\ rcall.ndl = 1
    /\ RoslynInstalled
    /\ rcached = NoServer

----------------------------------------------------------------------------
\* C22: feed base-address memoization.  On one NuGetClient, a call made when
\* the base address is known does not fetch the service index and uses the
\* known address, which stays as it is whatever the feed would now serve; a
\* call made when it is not known fetches the index once, keeps and uses
\* the address the index names, and after a failed discovery (fetch error,
\* malformed index, no resources, no PackageBaseAddress resource) keeps
\* nothing and fails, so that the next call fetches the index again.
BaseResources(index) ==
    {i \in 1..Len(index.resources) :
        index.resources[i].type = "PackageBaseAddress/3.0.0"}

\* the index names an address: its first base-address resource has one
NamesAddress(index) ==
    /\ index.kind = "json"
    /\ BaseResources(index) # {}
    /\ \A i \in BaseResources(index) :
          (\A j \in BaseResources(index) : i <= j) => index.resources[i].id.isStr

DiscoveryFails(index) ==
    index.kind # "json" \/ BaseResources(index) = {}

C22_EachCall ==
    nv.pc = "called" =>
       /\ nv.before # NoBase =>
             nv.fetched = 0 /\ baseAddr = nv.before /\ nv.used = nv.before
       /\ nv.before = NoBase =>
             /\ nv.fetched = 1
             /\ NamesAddress(nv.index) =>
                   /\ baseAddr # NoBase
                   /\ baseAddr[Len(baseAddr)] # "/"
                   /\ \E i \in BaseResources(nv.index) :
                         /\ nv.index.resources[i].id.isStr
                         /\ baseAddr = SubSeq(nv.index.resources[i].id.text, 1, Len(baseAddr))
                   /\ nv.used = baseAddr
             /\ DiscoveryFails(nv.index) => baseAddr = NoBase /\ ~nv.ok
             /\ baseAddr = NoBase => ~nv.ok

C22_Kept == baseAddr # NoBase => baseAddr' = baseAddr

C22_BaseAddressMemoization == []C22_EachCall /\ [][C22_Kept]_vars

\* a later call of the other operation while the feed serves another address
C22_Witness ==
    /\ nv.pc = "called"
    /\ nv.op = "download_and_extract"
    /\ nv.before = <<"https://flat">>
    /\ nv.index = ServiceIndex("json",
                     << Resource("PackageBaseAddress/3.0.0", Str(<<"https://mirror">>)) >>)
    /\ nv.fetched = 0
    /\ nv.used = <<"https://flat">>
    /\ nv.ok

----------------------------------------------------------------------------
\* C23: concurrent installs are tolerated.  Two processes that install the
\* same version at overlapping times, each through its own staging
\* directory, both end their call successfully, and when both have returned
\* the version directory holds the whole payload with the binary.
C23_ConcurrentInstalls ==
    /\ \A c \in Callers : call[c].status # "err"
    /\ (\A c \in Callers : call[c].pc = "idle" /\ call[c].status = "ok") =>
          Files(platform) \subseteq vdir[latest]

\* both processes were copying at once and both calls have failed
C23_Failure ==
    /\ \A c \in Callers : call[c].status = "err" /\ call[c].err = "exists"
    /\ Files(platform) \subseteq vdir[latest]
    /\ \A m \in Managers : cached[m] = NoPath

----------------------------------------------------------------------------
\* C24: staging names do not collide.  Two install attempts of the same
\* version that overlap in time never hold the same staging directory, and
\* an attempt that has downloaded into its staging directory still finds
\* that directory until it drops it itself.
InStaging(c) == call[c].pc \in {"download", "locate", "copy"}

C24_NoCollision ==
    \A c \in Callers, d \in Callers :
       c # d /\ InStaging(c) /\ InStaging(d) =>
          <<call[c].dver, call[c].temp>> # <<call[d].dver, call[d].temp>>

C24_NoForeignRemoval ==
    \A c \in Callers :
       call[c].pc \in {"locate", "copy"} =>
          DirMark \in staging[<<call[c].dver, call[c].temp>>]

C24_StagingNamesDistinct == C24_NoCollision /\ C24_NoForeignRemoval

\* one attempt has dropped the directory the other is about to search
C24_Failure ==
    \E c \in Callers :
       /\ call[c].pc = "locate"
       /\ staging[<<call[c].dver, call[c].temp>>] = {}

----------------------------------------------------------------------------
\* C25: executable bit before first use.  On a platform other than Windows,
\* the binary whose path a call returns without a user override has had
\* make_file_executable applied to it: the netcoredbg binary of a fresh
\* install, of a disk hit and of a memory hit, and the Roslyn server in its
\* executable form (the .dll form is launched through dotnet and is exempt).
C25_Netcoredbg ==
    platform.os # "Windows" =>
       \A c \in Callers :
          call[c].pc = "idle" /\ call[c].status = "ok"
                /\ call[c].branch \in {"fresh", "disk", "memory"} =>
             ExecMark \in vdir[call[c].path.ver]

C25_Roslyn ==
    platform.os # "Windows" =>
       ((rcall.status = "ok" /\ rcall.branch \in {"fresh", "disk"}
            /\ rcall.command.command = rcall.command.path) => rcall.chmod)

C25_ExecutableBeforeUse == C25_Netcoredbg /\ C25_Roslyn

\* a disk hit on a binary that an attempt copied and never made executable
C25_Failure ==
    /\ platform.os = "Linux"
    /\ call["c1"].status = "ok"
    /\ call["c1"].branch = "disk"
    /\ Exists(call["c1"].path)
    /\ ExecMark \notin vdir[call["c1"].path.ver]

----------------------------------------------------------------------------
\* C26: a failed download does not poison the disk cache.  For netcoredbg,
\* the step in which the download fails ends the call with an error and
\* leaves every version directory as it was.  For Roslyn, a call that takes
\* the version for installed (a disk hit) finds a version directory whose
\* package was extracted to its end, never what a failed download left.
C26_NetcoredbgStep ==
    \A c \in Callers :
       call[c].pc = "download" /\ call'[c].pc = "idle" =>
          call'[c].status = "err" /\ vdir' = vdir

C26_Roslyn ==
    rcall.status = "ok" /\ rcall.branch = "disk" =>
       rdir[rcall.command.path.ver].whole

C26_Netcoredbg == [][C26_NetcoredbgStep]_vars

C26_NoPoisonedDiskCache == []C26_Roslyn /\ C26_Netcoredbg

\* a disk hit on the part of the package that a failed download left
C26_Failure ==
    /\ rcall.status = "ok"
    /\ rcall.branch = "disk"
    /\ rcall.ndl = 0
    /\ rdir[rcall.command.path.ver] = PartialWithServer

----------------------------------------------------------------------------
\* C27: recovery after a failed install.  What a failed install left in the
\* version directory never fails a later call: no call ends with the error
\* of a copy onto a file that exists already, the only error a call can
\* meet while the registry, the network and the filesystem all work.
C27_RecoveryAfterFailedInstall ==
    \A c \in {"c1"} : call[c].err # "exists"

\* a file of the failed install is in the version directory, the binary is
\* not, and the call that found it there has failed
C27_Failure ==
    /\ call["c1"].status = "err"
    /\ call["c1"].err = "exists"
    /\ call["c1"].ndl = 1
    /\ SupportFile \in vdir[latest]
    /\ ~Exists(BinaryPath(latest, platform))

----------------------------------------------------------------------------
\* C28: one version per acquisition.  In a call of get_binary_path that
\* reaches the download branch, the version it downloads, installs and is
\* about to return is the version whose directory it checked for an
\* existing binary, whatever the registry publishes meanwhile.
C28_OneVersionPerAcquisition ==
    \A c \in {"c1"} :
       /\ call[c].pc \in {"download", "locate", "copy"} => call[c].dver = call[c].ver
       /\ call[c].pc = "cache" => call[c].bpath.ver = call[c].ver

\* the directory of release 1 was checked, release 2 is being downloaded
C28_Failure ==
    /\ call["c1"].pc = "download"
    /\ call["c1"].ver = 1
    /\ call["c1"].dver = 2
    /\ call["c1"].nfetch = 2

----------------------------------------------------------------------------
\* C29: validation precedes acquisition in get_dap_binary.  The binary
\* manager is at work for a request only if the adapter name is netcoredbg,
\* the configuration parsed, the request is launch or attach and an attach
\* request carries a processId; a step in which get_dap_binary rejects a
\* request returns an error and changes neither the registry lookups and
\* downloads made, nor the version and staging directories, nor the memory
\* cache.
C29_Validated ==
    (nv.pc = "acquiring" \/ call["c1"].pc # "idle") =>
       /\ nv.adapter = "netcoredbg"
       /\ nv.config.request \in {"launch", "attach"}
       /\ nv.config.processId # "bool"
       /\ nv.config.request = "attach" => nv.config.processId \in {"int", "string"}

C29_RejectedStep ==
    (nv' # nv /\ nv.pc # "acquiring" /\ nv'.pc = "returned") =>
       /\ nv'.status = "err"
       /\ nv'.err \in {"adapter", "parse", "request", "processId"}
       /\ UNCHANGED <<latest, vdir, staging, cached, call>>

C29_WorkOnlyWhenAccepted ==
    (cached' # cached \/ staging' # staging
       \/ call'["c1"].nfetch > call["c1"].nfetch \/ call'["c1"].ndl > call["c1"].ndl
       \/ call'["c1"].pc # "idle") => nv'.pc = "acquiring"

C29_ValidationPrecedesAcquisition ==
    []C29_Validated /\ [][C29_RejectedStep /\ C29_WorkOnlyWhenAccepted]_vars

\* an attach request without processId was rejected while the memory cache
\* held a path from an earlier request
C29_Witness ==
    /\ nv.pc = "returned"
    /\ nv.status = "err"
    /\ nv.err = "processId"
    /\ nv.adapter = "netcoredbg"
    /\ nv.config.request = "attach"
    /\ cached["m1"] # NoPath
    /\ call["c1"].status = "ok"


====
